---------------------------- MODULE Spec2Model ----------------------------
(***************************************************************************)
(* A model of the curve-fitting helpers of the razor repository:           *)
(*   curvemod/sigmoid.py  (four_pl, Sigmoid.fit, Sigmoid.predict)          *)
(*   curvemod/lowess2.py  (Lowess.fit, Lowess.conf_int)                    *)
(*   curvemod/lowess.py   (smooth, Lowess.conf_int)                        *)
(*   curvemod/linreg.py   (ConfInt.lin_reg, ConfInt.confidence_interval)   *)
(*   curvemod/avipy.py    (Avipy.fit, Avipy.auc, Avipy.avidity_index)      *)
(*   vizzy/flower.py      (Peak.plot)                                      *)
(*   plotty/utils.py      (PlotUtils.qpcr_cq)                              *)
(*   vizzy/heatermap.py   (Heatermap.corr)                                 *)
(*   plotty/plot.py       (DilutionCurve)                                  *)
(*   plotty/curvature.py  (four_pl, specific_hill, the curves drawn)       *)
(*                                                                         *)
(* Floating-point numbers are modelled as exact extended rationals: a      *)
(* pair <<n, d>> with d > 0 in lowest terms is the number n/d, and the     *)
(* three pairs with d = 0 are the IEEE special values (NaN, +inf, -inf).   *)
(* The operations follow IEEE-754 as numpy applies it to float64 scalars   *)
(* (division by zero gives an infinity or NaN and raises nothing).         *)
(* Rounding error of the binary representation is not modelled.            *)
(*                                                                         *)
(* The external library fitters (scipy curve_fit, statsmodels lowess) are  *)
(* modelled by their interface: what they return is drawn from a bounded   *)
(* set of possible results, or they raise.  The least-squares fits of      *)
(* linreg.py and avipy.py are computed: their minimum has a closed form.   *)
(***************************************************************************)
EXTENDS Integers, Sequences, FiniteSets, TLC

VARIABLES
    \* ---- curvemod/sigmoid.py: one Sigmoid object and its last call
    sg_fit,     \* what opt.curve_fit yields on the object's (x_values, y_values)
    sg_pc,      \* "idle" | "returned" | "raised"
    sg_call,    \* the last call: [op, x, y, dilution, log_corr, fromEval]
    sg_ret,     \* the value the last call returned
    sg_err      \* the exception the last call raised ("" when none)

sgvars == <<sg_fit, sg_pc, sg_call, sg_ret, sg_err>>

VARIABLES
    \* ---- curvemod/lowess2.py: one Lowess object and its last call
    l2_n,        \* len(self._x) = len(self._y)
    l2_K,        \* self._K; self._xvals has K points
    l2_frac,     \* self._frac; Unset until fit() has assigned it
    l2_pc,       \* "idle" | "loop" | "sorting" | "returned" | "raised"
    l2_call,     \* the last call and its arguments
    l2_sample,   \* _sample, _sampled_x, _sampled_y of the last loop iteration
    l2_smoothed, \* the rows of _smoothed_values filled so far
    l2_ret,      \* what the last call returned
    l2_drawn,    \* what the last call drew on ax
    l2_err       \* the exception the last call raised ("" when none)

l2vars == <<l2_n, l2_K, l2_frac, l2_pc, l2_call, l2_sample, l2_smoothed,
            l2_ret, l2_drawn, l2_err>>

VARIABLES
    \* ---- curvemod/lowess.py: one Lowess object and its last call
    lw_n,        \* len(self._x) = len(self._y)
    lw_pc,       \* "idle" | "smoothing" | "returned" | "raised"
    lw_call,     \* the last call and its arguments
    lw_kws,      \* kws of conf_int: the defaults overridden by kwargs
    lw_samples,  \* _samples of the last smooth() call: how often each index was drawn
    lw_smooths,  \* the curves smooth() has returned so far in this call
    lw_ret,      \* what the last call returned
    lw_drawn,    \* what the last call drew on ax
    lw_err       \* the exception the last call raised ("" when none)

lwvars == <<lw_n, lw_pc, lw_call, lw_kws, lw_samples, lw_smooths, lw_ret, lw_drawn, lw_err>>

VARIABLES
    \* ---- curvemod/linreg.py: one ConfInt object and its last call
    ci_x,         \* self.x
    ci_y,         \* self.y
    ci_n,         \* self.n, the number of bootstrap replicates
    ci_pc,        \* "idle" | "loop" | "returned" | "raised"
    ci_call,      \* the last call and its arguments
    ci_bootstrap, \* bootstrap of the last loop iteration: indices into xys
    ci_lines,     \* (m_hat, c_hat) of the replicates fitted so far
    ci_drawn,     \* what the last call drew on ax, in drawing order
    ci_err        \* the exception the last call raised ("" when none)

civars == <<ci_x, ci_y, ci_n, ci_pc, ci_call, ci_bootstrap, ci_lines, ci_drawn, ci_err>>

VARIABLES
    \* ---- curvemod/avipy.py: one Avipy object and its last call
    av_dilution, \* self.dilution: the dilution values in the order of the mapper
    av_data,     \* self.data: the rows, their readings already blank-corrected
    av_pc,       \* "idle" | "returned" | "raised"
    av_call,     \* the last call
    av_ret,      \* the table the last call returned
    av_err       \* the exception the last call raised ("" when none)

avvars == <<av_dilution, av_data, av_pc, av_call, av_ret, av_err>>

VARIABLES
    \* ---- vizzy/flower.py: the last call of Peak.plot
    pk_pc,       \* "idle" | "returned" | "raised"
    pk_call,     \* the last call and its keyword arguments
    pk_drawn,    \* the FacetGrid the last call drew
    pk_err       \* the exception the last call raised ("" when none)

pkvars == <<pk_pc, pk_call, pk_drawn, pk_err>>

VARIABLES
    \* ---- plotty/utils.py: the last call of PlotUtils.qpcr_cq
    qp_pc,       \* "idle" | "returned" | "raised"
    qp_call,     \* the last call and its arguments
    qp_measured, \* what measure_cq() returned in the last call (NoVal: not run)
    qp_out,      \* what the last call printed or drew
    qp_err       \* the exception the last call raised ("" when none)

qpvars == <<qp_pc, qp_call, qp_measured, qp_out, qp_err>>

VARIABLES
    \* ---- vizzy/heatermap.py: one Heatermap object and its last call of corr
    hm_data,     \* self.data: the names of its columns, in their order
    hm_pc,       \* "idle" | "returned" | "raised"
    hm_call,     \* the last call and its arguments
    hm_ret,      \* the table the last call returned (<<>> when none)
    hm_err       \* the exception the last call raised ("" when none)

hmvars == <<hm_data, hm_pc, hm_call, hm_ret, hm_err>>

VARIABLES
    \* ---- plotty/plot.py: the DilutionCurve objects and the last call
    dc_data,     \* self.data of each object: the columns its rows have
    dc_attrs,    \* the attributes each object got after __init__
    dc_called,   \* the methods called on each object so far, whatever came of them
    dc_pc,       \* "idle" | "returned" | "raised"
    dc_call,     \* the last call: its method, its object, what had been called before
    dc_ret,      \* the object the last call returned ("" when none)
    dc_drawn,    \* what the last call drew on its axes, in drawing order
    dc_err       \* the exception the last call raised ("" when none)

dcvars == <<dc_data, dc_attrs, dc_called, dc_pc, dc_call, dc_ret, dc_drawn, dc_err>>

vars == <<sgvars, l2vars, lwvars, civars, avvars, pkvars, qpvars, hmvars, dcvars>>

\* what a step of one module leaves alone: the objects of the other modules
sg_others == <<l2vars, lwvars, civars, avvars, pkvars, qpvars, hmvars, dcvars>>

l2_others == <<sgvars, lwvars, civars, avvars, pkvars, qpvars, hmvars, dcvars>>

lw_others == <<sgvars, l2vars, civars, avvars, pkvars, qpvars, hmvars, dcvars>>

ci_others == <<sgvars, l2vars, lwvars, avvars, pkvars, qpvars, hmvars, dcvars>>

av_others == <<sgvars, l2vars, lwvars, civars, pkvars, qpvars, hmvars, dcvars>>

pk_others == <<sgvars, l2vars, lwvars, civars, avvars, qpvars, hmvars, dcvars>>

qp_others == <<sgvars, l2vars, lwvars, civars, avvars, pkvars, hmvars, dcvars>>

hm_others == <<sgvars, l2vars, lwvars, civars, avvars, pkvars, qpvars, dcvars>>

dc_others == <<sgvars, l2vars, lwvars, civars, avvars, pkvars, qpvars, hmvars>>

----------------------------------------------------------------------------
(* Extended rationals *)

NaN == <<0, 0>>

PInf == <<1, 0>>

NInf == <<-1, 0>>

Abs(n) == IF n < 0 THEN -n ELSE n

RECURSIVE GCD(_, _)
GCD(a, b) == IF b = 0 THEN a ELSE GCD(b, a % b)

\* The number n/d (d # 0) in lowest terms with a positive denominator.
Q(n, d) ==
    LET s == IF d < 0 THEN -1 ELSE 1
        g == GCD(Abs(n), Abs(d))
    IN  <<(s * n) \div g, (s * d) \div g>>

I(n) == <<n, 1>>

IsNaN(v) == v = NaN

IsFin(v) == v[2] > 0

\* -1, 0, 1: the sign of a value that is not NaN
Sign(v) == IF v[1] < 0 THEN -1 ELSE IF v[1] > 0 THEN 1 ELSE 0

Neg(v) == <<-v[1], v[2]>>

Lt(a, b) ==
    IF IsNaN(a) \/ IsNaN(b) THEN FALSE
    ELSE IF IsFin(a) /\ IsFin(b) THEN a[1] * b[2] < b[1] * a[2]
    ELSE IF a = b THEN FALSE
    ELSE a = NInf \/ b = PInf

Leq(a, b) == ~IsNaN(a) /\ ~IsNaN(b) /\ (a = b \/ Lt(a, b))

FAdd(a, b) ==
    IF IsNaN(a) \/ IsNaN(b) THEN NaN
    ELSE IF IsFin(a) /\ IsFin(b) THEN Q(a[1] * b[2] + b[1] * a[2], a[2] * b[2])
    ELSE IF IsFin(a) THEN b
    ELSE IF IsFin(b) THEN a
    ELSE IF a = b THEN a ELSE NaN

FSub(a, b) == FAdd(a, IF IsNaN(b) THEN NaN ELSE Neg(b))

FMul(a, b) ==
    IF IsNaN(a) \/ IsNaN(b) THEN NaN
    ELSE IF IsFin(a) /\ IsFin(b) THEN Q(a[1] * b[1], a[2] * b[2])
    ELSE IF Sign(a) * Sign(b) = 0 THEN NaN
    ELSE IF Sign(a) * Sign(b) > 0 THEN PInf ELSE NInf

\* IEEE division; a zero divisor is +0.0
FDiv(a, b) ==
    IF IsNaN(a) \/ IsNaN(b) THEN NaN
    ELSE IF IsFin(a) /\ IsFin(b) THEN
        IF b[1] # 0 THEN Q(a[1] * b[2], a[2] * b[1])
        ELSE IF a[1] = 0 THEN NaN
        ELSE IF a[1] > 0 THEN PInf ELSE NInf
    ELSE IF IsFin(a) THEN I(0)
    ELSE IF IsFin(b) THEN
        IF Sign(a) * (IF Sign(b) < 0 THEN -1 ELSE 1) > 0 THEN PInf ELSE NInf
    ELSE NaN

RECURSIVE IPow(_, _)
IPow(m, k) == IF k = 0 THEN 1 ELSE m * IPow(m, k - 1)

\* a ** k for a finite a and an integer k
FPowInt(a, k) ==
    IF k >= 0 THEN Q(IPow(a[1], k), IPow(a[2], k))
    ELSE FDiv(I(1), Q(IPow(a[1], -k), IPow(a[2], -k)))

RECURSIVE IRootIn(_, _, _, _)
IRootIn(m, k, lo, hi) ==
    IF lo > hi THEN -1
    ELSE LET mid == (lo + hi) \div 2
             pw == IPow(mid, k)
         IN  IF pw = m THEN mid
             ELSE IF pw < m THEN IRootIn(m, k, mid + 1, hi)
             ELSE IRootIn(m, k, lo, mid - 1)

\* the integer r >= 0 with r^k = m (k >= 1), or -1 when m is no perfect k-th power
IRoot(m, k) == IF k = 1 \/ m < 2 THEN m ELSE IRootIn(m, k, 1, m \div 2)

\* a ** (p/q) for a finite a >= 0 and integers p # 0, q > 0: exact when the
\* root is rational, and HasPow says whether it is.
HasPow(a, p, q) ==
    /\ IRoot(IPow(a[1], q), Abs(p)) >= 0
    /\ IRoot(IPow(a[2], q), Abs(p)) >= 0

\* a ** (e[2]/e[1]), i.e. a ** (1/e), for a finite a >= 0 and a finite e # 0
FRootPow(a, e) ==
    LET p == e[1]
        q == e[2]
        r == Q(IRoot(IPow(a[1], q), Abs(p)), IRoot(IPow(a[2], q), Abs(p)))
    IN  IF p > 0 THEN r ELSE FDiv(I(1), r)

FloorQ(v) == v[1] \div v[2]

CeilQ(v) == -((-v[1]) \div v[2])

\* round(v, 3) of a float64: to the nearest multiple of 1/1000, ties to even;
\* NaN and the infinities are returned as they are
Round3(v) ==
    IF ~IsFin(v) THEN v
    ELSE LET m == (v[1] * 1000) \div v[2]
             r == v[1] * 1000 - m * v[2]
             up == \/ 2 * r > v[2]
                   \/ (2 * r = v[2] /\ m % 2 = 1)
         IN  Q(IF up THEN m + 1 ELSE m, 1000)

----------------------------------------------------------------------------
(* Logarithms.  The float holding log10(q) is represented by its antilog q  *)
(* under the tag lg: lg = 0 is log10(0) = -inf, lg = PInf is +inf, lg = NaN *)
(* is NaN.  Arithmetic on logarithms is arithmetic on the antilogs.         *)

\* np.log10(v): NaN for a negative argument, -inf for 0
log10(v) == [lg |-> IF IsNaN(v) \/ Sign(v) < 0 THEN NaN ELSE v]

\* whether l / s is a float this model can write down exactly
LogDivExact(l, s) ==
    \/ IsNaN(l.lg) \/ ~IsFin(l.lg) \/ l.lg[1] = 0 \/ s[1] = 0
    \/ HasPow(l.lg, s[1], s[2])

\* l / s for a logarithm l and a finite float s
LogDiv(l, s) ==
    LET a == l.lg IN
    [lg |-> IF IsNaN(a) THEN NaN
            ELSE IF s[1] = 0 THEN
                (IF a = I(1) THEN NaN ELSE IF Lt(I(1), a) THEN PInf ELSE I(0))
            ELSE IF a = I(0) THEN (IF s[1] > 0 THEN I(0) ELSE PInf)
            ELSE IF a = PInf THEN (IF s[1] > 0 THEN PInf ELSE I(0))
            ELSE FRootPow(a, s)]

\* l1 - l2 for two logarithms
LogSub(l1, l2) == [lg |-> FDiv(l1.lg, l2.lg)]

\* 10 ** l
Pow10(l) == l.lg

\* whether a ** b is a float this model can write down exactly
PowExact(a, b) ==
    \/ ~IsFin(a) \/ b[2] = 1 \/ a[1] < 0
    \/ /\ IRoot(IPow(a[1], Abs(b[1])), b[2]) >= 0
       /\ IRoot(IPow(a[2], Abs(b[1])), b[2]) >= 0

\* a ** b for a finite exponent b
FPow(a, b) ==
    IF IsNaN(a) THEN (IF b[1] = 0 THEN I(1) ELSE NaN)
    ELSE IF b[1] = 0 THEN I(1)
    ELSE IF a = PInf THEN (IF b[1] > 0 THEN PInf ELSE I(0))
    ELSE IF a = NInf THEN
        (IF b[1] < 0 THEN I(0)
         ELSE IF b[2] = 1 /\ b[1] % 2 = 1 THEN NInf ELSE PInf)
    ELSE IF b[2] = 1 THEN FPowInt(a, b[1])
    ELSE IF a[1] < 0 THEN NaN
    ELSE LET r == Q(IRoot(IPow(a[1], Abs(b[1])), b[2]),
                    IRoot(IPow(a[2], Abs(b[1])), b[2]))
         IN  IF b[1] > 0 THEN r ELSE FDiv(I(1), r)

----------------------------------------------------------------------------
(* curvemod/sigmoid.py *)

\* The inputs of the model.  A parameter tuple is <<a, b, c, d>> =
\* <<bottom, slope, IC50 (midpoint), top>>, the order Sigmoid.fit documents.
Bottoms == {I(0), I(1)}

Slopes == {I(-2), I(-1), I(0), I(1), I(2)}

Midpoints == {I(0), I(1), I(10)}

Tops == {I(0), I(2), I(100)}

ParamSet == {<<a, b, c, d>> : a \in Bottoms, b \in Slopes, c \in Midpoints, d \in Tops}

\* x-values at which a curve is evaluated
Xs == {I(1), I(2), I(5), I(10), I(20)}

\* readouts handed to predict
Ys == {I(-1), I(0), I(1), Q(3, 2), I(2), I(20), I(30), I(50), I(80), I(100), I(200)}

\* dilution arguments of predict; I(0) stands for the default None (falsy)
Dilutions == {I(0), I(2)}

NoVal == <<>>

\* four_pl of plotty/curvature.py: ((a - d) / (1.0 + ((x / c) ** b))) + d
curvature_four_pl(x, a, b, c, d) ==
    FAdd(FDiv(FSub(a, d), FAdd(I(1), FPow(FDiv(x, c), b))), d)

\* four_pl(x, a, b, c, d): (a - b) / (1.0 + ((x / c) ** b)) + d
four_pl(x, a, b, c, d) ==
    FAdd(FDiv(FSub(a, b), FAdd(I(1), FPow(FDiv(x, c), b))), d)

\* whether the model evaluates four_pl exactly at these arguments
four_pl_exact(x, a, b, c, d) == PowExact(FDiv(x, c), b)

\* the expression of line 82: _logic50 - (np.log10(ratio - 1) / _slope)
y_to_x_log(fit, y) ==
    LET bottom == fit[1]
        slope == fit[2]
        ic50 == fit[3]
        top == fit[4]
        logic50 == log10(ic50)
    IN  LogSub(logic50,
               LogDiv(log10(FSub(FDiv(FSub(top, bottom), FSub(y, bottom)), I(1))), slope))

y_to_x_exact(fit, y) ==
    LogDivExact(log10(FSub(FDiv(FSub(fit[4], fit[1]), FSub(y, fit[1])), I(1))), fit[2])

y_to_x_plus_slope(fit, y, log_corr) ==
    LET l == LogSub(log10(fit[3]),
                    LogDiv(log10(FSub(FDiv(FSub(fit[4], fit[1]), FSub(y, fit[1])), I(1))),
                           Neg(fit[2])))
    IN  IF ~log_corr THEN [kind |-> "round3log", v |-> l.lg]
        ELSE [kind |-> "num", v |-> Round3(Pow10(l))]

\* _y_to_x of Sigmoid.predict.  With log_corr the result is round(10 ** _x, 3);
\* without it the result is round(_x, 3), a rounded logarithm, kept as the
\* antilog of the unrounded _x under the kind "round3log".
y_to_x(fit, y, log_corr) ==
    LET l == y_to_x_log(fit, y)
    IN  IF ~log_corr THEN [kind |-> "round3log", v |-> l.lg]
        ELSE [kind |-> "num", v |-> Round3(Pow10(l))]

\* the value Sigmoid.predict returns once fit() has returned `fit`
predict(fit, y, dilution, log_corr) ==
    LET r == y_to_x(fit, y, log_corr)
    IN  IF dilution = I(0) THEN r
        ELSE [kind |-> r.kind, v |-> FMul(r.v, dilution)]

\* Sigmoid.fit(pretty): opt.curve_fit on the object's data; it raises
\* RuntimeError when the least-squares solver does not converge.
SigmoidFit(pretty) ==
    /\ sg_call' = [op |-> "fit", pretty |-> pretty]
    /\ IF ~sg_fit.ok
         THEN /\ sg_pc' = "raised"
              /\ sg_err' = "RuntimeError"
              /\ sg_ret' = [kind |-> "none", v |-> NoVal]
         ELSE /\ sg_pc' = "returned"
              /\ sg_err' = ""
              /\ sg_ret' = IF pretty THEN [kind |-> "none", v |-> NoVal]
                           ELSE [kind |-> "params", v |-> sg_fit.p]
    /\ UNCHANGED <<sg_fit, sg_others>>

\* four_pl(x, *fit) with fit = Sigmoid.fit(), as Sigmoid.curve and Sigmoid.r2
\* evaluate it
SigmoidEval(x) ==
    /\ sg_fit.ok
    /\ four_pl_exact(x, sg_fit.p[1], sg_fit.p[2], sg_fit.p[3], sg_fit.p[4])
    /\ sg_call' = [op |-> "four_pl", x |-> x]
    /\ sg_pc' = "returned"
    /\ sg_err' = ""
    /\ sg_ret' = [kind |-> "num",
                  v |-> four_pl(x, sg_fit.p[1], sg_fit.p[2], sg_fit.p[3], sg_fit.p[4])]
    /\ UNCHANGED <<sg_fit, sg_others>>

\* Sigmoid.predict(y, dilution, log_corr).  fromEval: y is the value the last
\* four_pl evaluation returned (at x), otherwise y is a caller's readout.
SigmoidPredictCall(x, y, dilution, log_corr, fromEval) ==
    /\ sg_call' = [op |-> "predict", x |-> x, y |-> y, dilution |-> dilution,
                   log_corr |-> log_corr, fromEval |-> fromEval]
    /\ IF ~sg_fit.ok
         THEN /\ sg_pc' = "raised"
              /\ sg_err' = "RuntimeError"
              /\ sg_ret' = [kind |-> "none", v |-> NoVal]
         ELSE /\ y_to_x_exact(sg_fit.p, y)
              /\ sg_pc' = "returned"
              /\ sg_err' = ""
              /\ sg_ret' = predict(sg_fit.p, y, dilution, log_corr)
    /\ UNCHANGED <<sg_fit, sg_others>>

SigmoidPredict ==
    \E y \in Ys, dilution \in Dilutions, log_corr \in BOOLEAN :
        SigmoidPredictCall(NoVal, y, dilution, log_corr, FALSE)

SigmoidPredictEvaluated ==
    /\ sg_pc = "returned"
    /\ sg_call.op = "four_pl"
    /\ IsFin(sg_ret.v)
    /\ \E dilution \in Dilutions, log_corr \in BOOLEAN :
        SigmoidPredictCall(sg_call.x, sg_ret.v, dilution, log_corr, TRUE)

SigmoidNext ==
    \/ \E pretty \in BOOLEAN : SigmoidFit(pretty)
    \/ \E x \in Xs : SigmoidEval(x)
    \/ SigmoidPredict
    \/ SigmoidPredictEvaluated

----------------------------------------------------------------------------
(* curvemod/lowess2.py *)

\* The largest replicate count K of an object.
MaxK == 5

\* The numbers of observations of an object.
ObsCounts == {1, 2}

Unset == <<>>

\* the observations of an object with n points: x[i], y[i] for i in 0..n-1
XData(n) == [i \in 0 .. n - 1 |-> I(10 + i)]

YData(n) == [i \in 0 .. n - 1 |-> I(20 + i)]

\* frac arguments of fit()
Fracs == {Q(1, 2), Q(1, 5)}

\* interval arguments of conf_int(): confidence levels in (0, 1).  They are
\* dyadic, so that K * (1 - interval) / 2 is exact in binary floating point.
Intervals == {Q(1, 8), Q(1, 2), Q(7, 8)}

\* What sm.nonparametric.lowess(..., xvals=self._xvals) can return: one value
\* per point of xvals (G of them).  A flat curve, a rising curve, and a curve
\* that is undefined (NaN) at its first point.
LowessRows(G) ==
    {[g \in 1 .. G |-> I(0)], [g \in 1 .. G |-> I(g)],
     [g \in 1 .. G |-> IF g = 1 THEN NaN ELSE I(0)]}

\* int(v) for a finite v: truncation toward zero
IntTrunc(v) == IF v[1] >= 0 THEN v[1] \div v[2] ELSE -((-v[1]) \div v[2])

\* a[i] for a Python sequence of length len: a negative i counts from the end;
\* InRange is false where Python raises IndexError
PyIndex(len, i) == IF i < 0 THEN len + i ELSE i

InRange(len, i) == -len <= i /\ i < len

\* the order np.sort uses: ascending, NaN last
SortsBefore(a, b) == IF IsNaN(a) THEN FALSE ELSE IF IsNaN(b) THEN TRUE ELSE Lt(a, b)

RECURSIVE Insert(_, _)
Insert(s, v) ==
    IF s = <<>> THEN <<v>>
    ELSE IF SortsBefore(v, Head(s)) THEN <<v>> \o s
    ELSE <<Head(s)>> \o Insert(Tail(s), v)

RECURSIVE np_sort(_)
np_sort(s) == IF s = <<>> THEN <<>> ELSE Insert(np_sort(Tail(s)), Head(s))

\* np.sort(m, axis=0) of a matrix given as a sequence of rows over 1..G:
\* every column sorted on its own
SortAxis0(m, G) ==
    LET col(g) == np_sort([k \in 1 .. Len(m) |-> m[k][g]])
    IN  [k \in 1 .. Len(m) |-> [g \in 1 .. G |-> col(g)[k]]]

\* _bound = int(self._K * (1 - interval) / 2)
conf_int_bound(K, interval) == IntTrunc(FDiv(FMul(I(K), FSub(I(1), interval)), I(2)))

conf_int_bottom_index_off_by_one(bound) == bound

\* the indices of lines 64 and 65: _sorted_values[_bound - 1], _sorted_values[- _bound]
conf_int_bottom_index(bound) == bound - 1

conf_int_top_index(bound) == -bound

Lowess2CallOver == l2_pc \in {"idle", "returned", "raised"}

\* Lowess.fit(ax, frac=frac): saves frac, then smooths the whole data.
\* `curve` is what the library returns; NoVal stands for the library raising.
Lowess2Fit(ax, frac, curve) ==
    /\ Lowess2CallOver
    /\ l2_call' = [op |-> "fit", ax |-> ax, frac |-> frac]
    /\ l2_frac' = frac
    /\ l2_smoothed' = <<>>
    /\ l2_sample' = [idx |-> <<>>, x |-> <<>>, y |-> <<>>]
    /\ IF curve = NoVal
         THEN /\ l2_pc' = "raised"
              /\ l2_err' = "LowessError"
              /\ l2_ret' = [kind |-> "none"]
              /\ l2_drawn' = [kind |-> "none"]
         ELSE /\ l2_pc' = "returned"
              /\ l2_err' = ""
              /\ l2_ret' = IF ax THEN [kind |-> "none"]
                           ELSE [kind |-> "curve", curve |-> curve]
              /\ l2_drawn' = IF ax THEN [kind |-> "plot", curve |-> curve]
                             ELSE [kind |-> "none"]
    /\ UNCHANGED <<l2_n, l2_K, l2_others>>

\* Lowess.conf_int(ax, interval) up to the loop: _smoothed_values is allocated
Lowess2ConfInt(ax, interval) ==
    /\ Lowess2CallOver
    /\ l2_call' = [op |-> "conf_int", ax |-> ax, interval |-> interval]
    /\ l2_pc' = "loop"
    /\ l2_smoothed' = <<>>
    /\ l2_sample' = [idx |-> <<>>, x |-> <<>>, y |-> <<>>]
    /\ l2_ret' = [kind |-> "none"]
    /\ l2_drawn' = [kind |-> "none"]
    /\ l2_err' = ""
    /\ UNCHANGED <<l2_n, l2_K, l2_frac, l2_others>>

\* One iteration of the loop of lines 54 to 59: n indices are drawn with
\* replacement, x and y are taken at them, and the resample is smoothed with
\* self._frac (AttributeError when fit() never assigned it).
Lowess2Replicate(sample, curve) ==
    /\ l2_pc = "loop"
    /\ Len(l2_smoothed) < l2_K
    /\ l2_sample' = [idx |-> sample,
                     x |-> [j \in 1 .. Len(sample) |-> XData(l2_n)[sample[j]]],
                     y |-> [j \in 1 .. Len(sample) |-> YData(l2_n)[sample[j]]]]
    /\ IF l2_frac = Unset
         THEN /\ l2_pc' = "raised"
              /\ l2_err' = "AttributeError"
              /\ UNCHANGED l2_smoothed
         ELSE IF curve = NoVal
         THEN /\ l2_pc' = "raised"
              /\ l2_err' = "LowessError"
              /\ UNCHANGED l2_smoothed
         ELSE /\ l2_smoothed' = Append(l2_smoothed, curve)
              /\ UNCHANGED <<l2_pc, l2_err>>
    /\ UNCHANGED <<l2_n, l2_K, l2_frac, l2_call, l2_ret, l2_drawn, l2_others>>

\* Lines 61 to 71, after the loop: the columns are sorted, the two rows are
\* picked (IndexError when the index is out of range) and returned or drawn.
Lowess2Band ==
    /\ l2_pc = "loop"
    /\ Len(l2_smoothed) = l2_K
    /\ LET sorted == SortAxis0(l2_smoothed, l2_K)
           bound == conf_int_bound(l2_K, l2_call.interval)
           ib == conf_int_bottom_index(bound)
           it == conf_int_top_index(bound)
       IN  IF ~InRange(l2_K, ib) \/ ~InRange(l2_K, it)
           THEN /\ l2_pc' = "raised"
                /\ l2_err' = "IndexError"
                /\ UNCHANGED <<l2_ret, l2_drawn>>
           ELSE LET bottom == sorted[PyIndex(l2_K, ib) + 1]
                    top == sorted[PyIndex(l2_K, it) + 1]
                IN  /\ l2_pc' = "returned"
                    /\ l2_err' = ""
                    /\ IF l2_call.ax
                        THEN /\ l2_drawn' = [kind |-> "fill_between",
                                             bottom |-> bottom, top |-> top]
                             /\ UNCHANGED l2_ret
                        ELSE /\ l2_ret' = [kind |-> "band",
                                           bottom |-> bottom, top |-> top]
                             /\ UNCHANGED l2_drawn
    /\ UNCHANGED <<l2_n, l2_K, l2_frac, l2_call, l2_sample, l2_smoothed, l2_others>>

Lowess2Next ==
    \/ \E ax \in BOOLEAN, frac \in Fracs, curve \in LowessRows(l2_K) \cup {NoVal} :
          Lowess2Fit(ax, frac, curve)
    \/ \E ax \in BOOLEAN, interval \in Intervals : Lowess2ConfInt(ax, interval)
    \/ \E sample \in [1 .. l2_n -> 0 .. l2_n - 1],
          curve \in LowessRows(l2_K) \cup {NoVal} : Lowess2Replicate(sample, curve)
    \/ Lowess2Band

----------------------------------------------------------------------------
(* curvemod/lowess.py *)

\* size=50 of np.random.choice in smooth()
SampleSize == 50

\* the number of points of grid_x = np.linspace(_x.min(), _x.max())
GridSize == 50

\* The largest K argument of conf_int.
MaxCallK == 2

\* What smooth() can return: one value per point of grid_x.  A flat curve, a
\* rising curve, and a curve that is undefined (NaN) at its first grid point
\* (interp1d divides by zero between two equal sampled x).
SmoothCurves ==
    {[g \in 1 .. GridSize |-> I(0)], [g \in 1 .. GridSize |-> I(g)],
     [g \in 1 .. GridSize |-> IF g = 1 THEN NaN ELSE I(0)]}

\* band arguments of conf_int: None, the three names the method knows, an
\* unknown name and the empty string
Bands == {"None", "lines", "percentile", "se", "hatched", ""}

\* `not band` of line 106: None and every other falsy value, as the empty string
not_band(band) == band \in {"None", ""}

\* **kwargs of conf_int, as the sequence of (key, value) pairs of the dict
KwargsSet ==
    {<<>>, <<<<"interval", I(90)>>>>, <<<<"color", "red">>, <<"alpha", Q(1, 2)>>>>,
     <<<<"colour", "red">>>>, <<<<"alpha", Q(1, 2)>>, <<"colour", "red">>>>}

\* kws = {"color": "steelblue", "alpha": 0.1, "interval": 95}
conf_int_defaults == [color |-> "steelblue", alpha |-> Q(1, 10), interval |-> I(95)]

\* the loop without its check: an unknown key is passed over
RECURSIVE merge_kwargs_skip_unknown(_, _, _)
merge_kwargs_skip_unknown(kws, kwargs, i) ==
    IF i > Len(kwargs) THEN [ok |-> TRUE, kws |-> kws]
    ELSE IF kwargs[i][1] \notin DOMAIN kws THEN merge_kwargs_skip_unknown(kws, kwargs, i + 1)
    ELSE merge_kwargs_skip_unknown([kws EXCEPT ![kwargs[i][1]] = kwargs[i][2]], kwargs, i + 1)

\* the loop on a dict that outlives the call: conf_int starts from the kws
\* its last call has left behind
RECURSIVE merge_kwargs_kept(_, _, _)
merge_kwargs_kept(kws, kwargs, i) ==
    LET start == IF i = 1 /\ DOMAIN kws = DOMAIN lw_kws THEN lw_kws ELSE kws
    IN  IF i > Len(kwargs) THEN [ok |-> TRUE, kws |-> start]
        ELSE IF kwargs[i][1] \notin DOMAIN start THEN [ok |-> FALSE, kws |-> start]
        ELSE merge_kwargs_kept([start EXCEPT ![kwargs[i][1]] = kwargs[i][2]], kwargs, i + 1)

\* The loop of lines 85 to 89 over kwargs.items(), from pair i on: an unknown
\* key raises, a known key is overridden.  Peak.plot (flower.py, lines 66 to
\* 70) and PlotUtils.qpcr_cq (utils.py, lines 64 to 68) have the same loop.
RECURSIVE merge_kwargs(_, _, _)
merge_kwargs(kws, kwargs, i) ==
    IF i > Len(kwargs) THEN [ok |-> TRUE, kws |-> kws]
    ELSE IF kwargs[i][1] \notin DOMAIN kws THEN [ok |-> FALSE, kws |-> kws]
    ELSE merge_kwargs([kws EXCEPT ![kwargs[i][1]] = kwargs[i][2]], kwargs, i + 1)

\* The draws np.random.choice(n, size=size, replace=True) can make, each given
\* by the number of indices drawn and the set of indices that occur among them.
Draws(n, size) ==
    {[size |-> size, indices |-> S] :
        S \in {T \in SUBSET (0 .. n - 1) : T # {} /\ Cardinality(T) <= size}}

\* _samples of smooth(x, y, grid_x): np.random.choice(len(x), size=50, replace=True)
smooth_draws(n) == Draws(n, SampleSize)

\* the values of a column that are not NaN, ascending
Valid(col) == np_sort(SelectSeq(col, LAMBDA v : ~IsNaN(v)))

\* np.percentile of the ascending values vals at q percent (linear interpolation)
np_percentile(vals, q) ==
    LET m == Len(vals)
        pos == FMul(FDiv(q, I(100)), I(m - 1))
        lo == FloorQ(pos)
    IN  IF lo + 1 >= m THEN vals[m]
        ELSE FAdd(vals[lo + 1], FMul(FSub(pos, I(lo)), FSub(vals[lo + 2], vals[lo + 1])))

\* np.nanpercentile of one column: NaN values are left out; NaN when all are
nanpercentile(col, q) ==
    IF Valid(col) = <<>> THEN NaN ELSE np_percentile(Valid(col), q)

RECURSIVE SumSeq(_)
SumSeq(s) == IF s = <<>> THEN I(0) ELSE FAdd(Head(s), SumSeq(Tail(s)))

\* np.nanmean of one column
nanmean(col) ==
    IF Valid(col) = <<>> THEN NaN ELSE FDiv(SumSeq(Valid(col)), I(Len(Valid(col))))

\* the square of np.nanstd(col, ddof=0)
nanvar(col) ==
    IF Valid(col) = <<>> THEN NaN
    ELSE LET mu == nanmean(col)
             sq == [j \in 1 .. Len(Valid(col)) |->
                       FMul(FSub(Valid(col)[j], mu), FSub(Valid(col)[j], mu))]
         IN  FDiv(SumSeq(sq), I(Len(Valid(col))))

\* column g of _smooths.T: the values of the K curves at grid point g
SmoothsColumn(smooths, g) == [k \in 1 .. Len(smooths) |-> smooths[k][g]]

\* _int_bottom, _int_top of lines 92 and 93
conf_int_percentiles(interval) ==
    LET half == FDiv(FSub(I(100), interval), I(2))
    IN  <<FAdd(I(0), half), FSub(I(100), half)>>

\* the argument of stats.norm.ppf in the "se" branch: kws["interval"] / 100
conf_int_ppf_arg(interval) == FDiv(interval, I(100))

NoSamples == [size |-> 0, indices |-> {}]

LowessCallOver == lw_pc \in {"idle", "returned", "raised"}

\* Lowess.plot(ax): the observations as black dots
LowessPlot ==
    /\ LowessCallOver
    /\ lw_call' = [op |-> "plot"]
    /\ lw_pc' = "returned"
    /\ lw_err' = ""
    /\ lw_ret' = [kind |-> "none"]
    /\ lw_drawn' = [kind |-> "points"]
    /\ lw_samples' = NoSamples
    /\ lw_smooths' = <<>>
    /\ UNCHANGED <<lw_n, lw_kws, lw_others>>

\* Lowess.fit(ax): sm_lowess on the whole data, returned or drawn.
\* `curve` is what the library returns; NoVal stands for the library raising.
LowessFit(ax, curve) ==
    /\ LowessCallOver
    /\ lw_call' = [op |-> "fit", ax |-> ax]
    /\ lw_samples' = NoSamples
    /\ lw_smooths' = <<>>
    /\ IF curve = NoVal
         THEN /\ lw_pc' = "raised"
              /\ lw_err' = "LowessError"
              /\ lw_ret' = [kind |-> "none"]
              /\ lw_drawn' = [kind |-> "none"]
         ELSE /\ lw_pc' = "returned"
              /\ lw_err' = ""
              /\ lw_ret' = IF ax THEN [kind |-> "none"] ELSE [kind |-> "curve", curve |-> curve]
              /\ lw_drawn' = IF ax THEN [kind |-> "plot", curve |-> curve]
                             ELSE [kind |-> "none"]
    /\ UNCHANGED <<lw_n, lw_kws, lw_others>>

\* Lowess.conf_int(ax, K, band, **kwargs) up to the smoothing: lines 81 to 103.
\* kws is a local dict, built from the defaults on every call.  The call
\* record keeps, as prev, the kwargs of the conf_int call just before it.
LowessConfInt(ax, K, band, kwargs) ==
    /\ LowessCallOver
    /\ lw_call' = [op |-> "conf_int", ax |-> ax, K |-> K, band |-> band, kwargs |-> kwargs,
                   prev |-> IF lw_call.op = "conf_int" THEN <<lw_call.kwargs>> ELSE <<>>]
    /\ lw_samples' = NoSamples
    /\ lw_smooths' = <<>>
    /\ lw_ret' = [kind |-> "none"]
    /\ lw_drawn' = [kind |-> "none"]
    /\ LET m == merge_kwargs(conf_int_defaults, kwargs, 1)
       IN  /\ lw_kws' = m.kws
           /\ IF m.ok
               THEN lw_pc' = "smoothing" /\ lw_err' = ""
               ELSE lw_pc' = "raised" /\ lw_err' = "Exception"
    /\ UNCHANGED <<lw_n, lw_others>>

\* One call of smooth(_x, _y, grid_x) in the list of line 104: `samples` are
\* the indices drawn, `curve` the interpolated smooth on grid_x (NoVal: the
\* library raises).
LowessSmooth(samples, curve) ==
    /\ lw_pc = "smoothing"
    /\ Len(lw_smooths) < lw_call.K
    /\ lw_samples' = samples
    /\ IF curve = NoVal
         THEN /\ lw_pc' = "raised"
              /\ lw_err' = "LowessError"
              /\ UNCHANGED lw_smooths
         ELSE /\ lw_smooths' = Append(lw_smooths, curve)
              /\ UNCHANGED <<lw_pc, lw_err>>
    /\ UNCHANGED <<lw_n, lw_call, lw_kws, lw_ret, lw_drawn, lw_others>>

\* Lines 104 to 136 once the K curves are there: np.stack (ValueError for an
\* empty list), then the band.  A band drawn with ax=None raises AttributeError.
\* The locals of the last smooth() call are gone by now.
LowessBand ==
    /\ lw_pc = "smoothing"
    /\ Len(lw_smooths) = lw_call.K
    /\ lw_samples' = NoSamples
    /\ LET band == lw_call.band
           pct == conf_int_percentiles(lw_kws.interval)
           lo == [g \in 1 .. GridSize |-> nanpercentile(SmoothsColumn(lw_smooths, g), pct[1])]
           hi == [g \in 1 .. GridSize |-> nanpercentile(SmoothsColumn(lw_smooths, g), pct[2])]
           mean == [g \in 1 .. GridSize |-> nanmean(SmoothsColumn(lw_smooths, g))]
           var == [g \in 1 .. GridSize |-> nanvar(SmoothsColumn(lw_smooths, g))]
       IN  IF lw_call.K = 0
           THEN /\ lw_pc' = "raised"
                /\ lw_err' = "ValueError"
                /\ UNCHANGED <<lw_ret, lw_drawn>>
           ELSE IF not_band(band)
           THEN /\ lw_pc' = "returned"
                /\ lw_ret' = [kind |-> "smooths", smooths |-> lw_smooths]
                /\ UNCHANGED <<lw_drawn, lw_err>>
           ELSE IF band \notin {"lines", "percentile", "se"}
           THEN /\ lw_pc' = "raised"
                /\ lw_err' = "Exception"
                /\ UNCHANGED <<lw_ret, lw_drawn>>
           ELSE IF ~lw_call.ax
           THEN /\ lw_pc' = "raised"
                /\ lw_err' = "AttributeError"
                /\ UNCHANGED <<lw_ret, lw_drawn>>
           ELSE /\ lw_pc' = "returned"
                /\ lw_drawn' =
                     IF band = "lines"
                     THEN [kind |-> "plot", smooths |-> lw_smooths,
                           color |-> lw_kws.color, alpha |-> lw_kws.alpha]
                     ELSE IF band = "percentile"
                     THEN [kind |-> "fill_between", y1 |-> lo, y2 |-> hi,
                           color |-> lw_kws.color, alpha |-> lw_kws.alpha]
                     ELSE [kind |-> "fill_between_se", mean |-> mean, var |-> var,
                           ppf |-> conf_int_ppf_arg(lw_kws.interval),
                           color |-> lw_kws.color, alpha |-> lw_kws.alpha]
                /\ UNCHANGED <<lw_ret, lw_err>>
    /\ UNCHANGED <<lw_n, lw_call, lw_kws, lw_smooths, lw_others>>

LowessNext ==
    \/ LowessPlot
    \/ \E ax \in BOOLEAN, curve \in SmoothCurves \cup {NoVal} : LowessFit(ax, curve)
    \/ \E ax \in BOOLEAN, K \in 0 .. MaxCallK, band \in Bands, kwargs \in KwargsSet :
          LowessConfInt(ax, K, band, kwargs)
    \/ \E samples \in smooth_draws(lw_n), curve \in SmoothCurves \cup {NoVal} :
          LowessSmooth(samples, curve)
    \/ LowessBand

----------------------------------------------------------------------------
(* curvemod/linreg.py *)

\* The largest replicate count n of a ConfInt object.
MaxConfN == 2

\* x and y given to ConfInt(x, y, n): the lengths may differ, x may be unsorted
ConfIntXs == {<<I(1)>>, <<I(1), I(2)>>, <<I(2), I(1)>>, <<I(1), I(2), I(3)>>}

ConfIntYs == {<<I(1)>>, <<I(1), I(2)>>, <<I(2), I(1)>>}


\* linear_eq(x, m, c) on an array x
linear_eq(x, m, c) == [i \in 1 .. Len(x) |-> FAdd(FMul(m, x[i]), c)]

\* numpy broadcasting of two 1-d arrays of lengths a and b in l2_loss:
\* linear_eq(x, m, c) - y raises ValueError unless it holds
Broadcasts(a, b) == a = b \/ a = 1 \/ b = 1

\* The minimiser of l2_loss over (m, c) for the arrays x and y, broadcast to
\* a common length as numpy does: the least-squares line when x has two
\* different values.  When all x are the same value x0 the minimum is not
\* unique; the descent of opt.minimize from x0=(0, 0) moves along the gradient,
\* a multiple of (x0, 1), and ends at the minimiser on that ray.
minimize_l2_loss(x, y) ==
    LET n == IF Len(x) < Len(y) THEN Len(y) ELSE Len(x)
        bx == [i \in 1 .. n |-> IF Len(x) = 1 THEN x[1] ELSE x[i]]
        by == [i \in 1 .. n |-> IF Len(y) = 1 THEN y[1] ELSE y[i]]
        sx == SumSeq(bx)
        sy == SumSeq(by)
        sxx == SumSeq([i \in 1 .. n |-> FMul(bx[i], bx[i])])
        sxy == SumSeq([i \in 1 .. n |-> FMul(bx[i], by[i])])
        det == FSub(FMul(I(n), sxx), FMul(sx, sx))
        ybar == FDiv(sy, I(n))
        m == FDiv(FSub(FMul(I(n), sxy), FMul(sx, sy)), det)
        norm == FAdd(FMul(bx[1], bx[1]), I(1))
    IN  IF n = 0 THEN <<I(0), I(0)>>
        ELSE IF det = I(0)
        THEN <<FDiv(FMul(bx[1], ybar), norm), FDiv(ybar, norm)>>
        ELSE <<m, FDiv(FSub(sy, FMul(m, sx)), I(n))>>

\* list(zip(self.x, self.y)): as many pairs as the shorter of the two has
zip_len(x, y) == IF Len(x) < Len(y) THEN Len(x) ELSE Len(y)

\* curves of line 97: one row linear_eq(self.x, m_hat, c_hat) per replicate
ConfIntCurves(x, lines) == [k \in 1 .. Len(lines) |-> linear_eq(x, lines[k][1], lines[k][2])]

\* np.percentile(curves, q, axis=0): per position of self.x, over the replicates
percentile_axis0(curves, n, q) ==
    [i \in 1 .. n |-> np_percentile(np_sort([k \in 1 .. Len(curves) |-> curves[k][i]]), q)]

ConfIntCallOver == ci_pc \in {"idle", "returned", "raised"}

\* ConfInt.lin_reg(ax, points): the least-squares line through (self.x, self.y)
\* drawn over self.x
ConfIntLinReg(ax, points) ==
    /\ ConfIntCallOver
    /\ ci_call' = [op |-> "lin_reg", ax |-> ax, points |-> points]
    /\ ci_bootstrap' = <<>>
    /\ ci_lines' = <<>>
    /\ IF ~Broadcasts(Len(ci_x), Len(ci_y))
         THEN /\ ci_pc' = "raised"
              /\ ci_err' = "ValueError"
              /\ ci_drawn' = <<>>
         ELSE IF ~ax
         THEN /\ ci_pc' = "raised"
              /\ ci_err' = "AttributeError"
              /\ ci_drawn' = <<>>
         ELSE /\ ci_pc' = "returned"
              /\ ci_err' = ""
              /\ ci_drawn' =
                    <<[kind |-> "plot", x |-> ci_x,
                       y |-> linear_eq(ci_x, minimize_l2_loss(ci_x, ci_y)[1],
                                       minimize_l2_loss(ci_x, ci_y)[2])]>>
                    \o (IF points THEN <<[kind |-> "scatter", x |-> ci_x, y |-> ci_y]>>
                        ELSE <<>>)
    /\ UNCHANGED <<ci_x, ci_y, ci_n, ci_others>>

\* ConfInt.confidence_interval(ax, conf_curve, conf_band): lines 86 and 87
ConfIntConfidenceInterval(ax, conf_curve, conf_band) ==
    /\ ConfIntCallOver
    /\ ci_call' = [op |-> "confidence_interval", ax |-> ax,
                   conf_curve |-> conf_curve, conf_band |-> conf_band]
    /\ ci_pc' = "loop"
    /\ ci_bootstrap' = <<>>
    /\ ci_lines' = <<>>
    /\ ci_drawn' = <<>>
    /\ ci_err' = ""
    /\ UNCHANGED <<ci_x, ci_y, ci_n, ci_others>>

\* One iteration of the loop of lines 92 to 97: one random.choice(xys) per
\* element of xys, then the fit of the sample.  The result of opt.minimize is
\* used whether or not it reports success.
ConfIntReplicate(bootstrap) ==
    /\ ci_pc = "loop"
    /\ Len(ci_lines) < ci_n
    /\ ci_bootstrap' = bootstrap
    /\ ci_lines' = Append(ci_lines,
                          minimize_l2_loss([i \in 1 .. Len(bootstrap) |-> ci_x[bootstrap[i]]],
                                           [i \in 1 .. Len(bootstrap) |-> ci_y[bootstrap[i]]]))
    /\ UNCHANGED <<ci_x, ci_y, ci_n, ci_pc, ci_call, ci_drawn, ci_err, ci_others>>

\* Lines 99 to 109 after the loop: the replicate lines, then the band
ConfIntBand ==
    /\ ci_pc = "loop"
    /\ Len(ci_lines) = ci_n
    /\ ci_bootstrap' = <<>>
    /\ LET curves == ConfIntCurves(ci_x, ci_lines)
           lo == percentile_axis0(curves, Len(ci_x), Q(5, 2))
           hi == percentile_axis0(curves, Len(ci_x), Q(195, 2))
           plots == IF ci_call.conf_curve
                    THEN [k \in 1 .. Len(curves) |->
                             [kind |-> "plot", x |-> ci_x, y |-> curves[k]]]
                    ELSE <<>>
           band == IF ci_call.conf_band
                   THEN <<[kind |-> "fill_between", x |-> np_sort(ci_x),
                           y1 |-> np_sort(lo), y2 |-> np_sort(hi)]>>
                   ELSE <<>>
       IN  IF ~ci_call.ax /\ (ci_call.conf_curve \/ ci_call.conf_band)
           THEN /\ ci_pc' = "raised"
                /\ ci_err' = "AttributeError"
                /\ UNCHANGED ci_drawn
           ELSE /\ ci_pc' = "returned"
                /\ ci_drawn' = plots \o band
                /\ UNCHANGED ci_err
    /\ UNCHANGED <<ci_x, ci_y, ci_n, ci_call, ci_lines, ci_others>>

ConfIntNext ==
    \/ \E ax \in BOOLEAN, points \in BOOLEAN : ConfIntLinReg(ax, points)
    \/ \E ax \in BOOLEAN, conf_curve \in BOOLEAN, conf_band \in BOOLEAN :
          ConfIntConfidenceInterval(ax, conf_curve, conf_band)
    \/ \E bootstrap \in [1 .. zip_len(ci_x, ci_y) -> 1 .. zip_len(ci_x, ci_y)] :
          ConfIntReplicate(bootstrap)
    \/ ConfIntBand

----------------------------------------------------------------------------
(* curvemod/avipy.py *)

\* default_dilution of line 18, its values in the order of the dict
default_dilution == <<1, 2, 4, 8, 16, 32>>

\* The values of the dilution_mapper given to Avipy(): none (the empty
\* sequence, for the ascending default) or descending dilutions.  The
\* dilutions are powers of two.
DilutionMappers == {<<>>, <<4, 2, 1>>}

\* self.dilution of lines 17 to 23
avipy_dilution(mapper) == IF mapper = <<>> THEN default_dilution ELSE mapper

\* np.log2 of a power of two
RECURSIVE log2(_)
log2(d) == IF d <= 1 THEN 0 ELSE 1 + log2(d \div 2)

\* The readings of a row after the blank is taken off, by the way they
\* run over the dilutions x: four that are linear in log2(x), and one that
\* is not.
ReadingShapes == {"rise", "fall", "below", "flat", "bump"}

Readings(shape, dilution) ==
    [i \in 1 .. Len(dilution) |->
        CASE shape = "rise" -> I(2 * log2(dilution[i]) + 1)
          [] shape = "fall" -> I(2 - log2(dilution[i]))
          [] shape = "below" -> I(-1 - log2(dilution[i]))
          [] shape = "flat" -> I(1)
          [] shape = "bump" -> IF i = 1 THEN I(1) ELSE I(0)]

Subjects == {"S1", "S2"}

\* The rows a table can have: of each subject a treated and an untreated row
\* with the first antigen
AvipyRows(dilution, shapes) ==
    {[Subject |-> sb, Antigen |-> "A1", Treated |-> tr, y |-> Readings(sh, dilution)] :
        sb \in Subjects, tr \in {"Yes", "No"}, sh \in shapes}

RowCounts == {1, 2, 4}

\* the shapes in a table of n rows: all of them in the short tables
ShapesOf(n) == IF n > 2 THEN {"rise", "fall"} ELSE ReadingShapes

\* The tables of one subject measured against both antigens: of each antigen
\* the untreated row, then the treated one
AntigenTables(dilution) ==
    {[r \in 1 .. 4 |->
         [Subject |-> "S1",
          Antigen |-> IF r < 3 THEN "A1" ELSE "A2",
          Treated |-> IF r % 2 = 1 THEN "No" ELSE "Yes",
          y |-> Readings(sh[r], dilution)]] :
        sh \in {q \in [1 .. 4 -> {"rise", "fall", "below"}] :
                  q[2] # "below" /\ q[4] # "below"}}

\* The tables: rows in any order, no sample given twice with the same treatment
AvipyTables(dilution) ==
    UNION {{t \in [1 .. n -> AvipyRows(dilution, ShapesOf(n))] :
               \A i, j \in 1 .. n :
                  (t[i].Subject = t[j].Subject /\ t[i].Treated = t[j].Treated) => i = j} :
           n \in RowCounts}
    \cup AntigenTables(dilution)

\* least squares through the origin, as LinearRegression(fit_intercept=False)
LinearRegression_fit_no_intercept(X, y) ==
    LET sxx == SumSeq([i \in 1 .. Len(X) |-> FMul(X[i], X[i])])
        sxy == SumSeq([i \in 1 .. Len(X) |-> FMul(X[i], y[i])])
    IN  <<IF sxx = I(0) THEN I(0) ELSE FDiv(sxy, sxx), I(0)>>

\* LinearRegression().fit(X, y) with one feature: <<coef_, intercept_>> of
\* ordinary least squares (the centred form; coef_ = 0 when X is constant)
LinearRegression_fit(X, y) ==
    LET n == Len(X)
        xbar == FDiv(SumSeq(X), I(n))
        ybar == FDiv(SumSeq(y), I(n))
        sxx == SumSeq([i \in 1 .. n |-> FMul(FSub(X[i], xbar), FSub(X[i], xbar))])
        sxy == SumSeq([i \in 1 .. n |-> FMul(FSub(X[i], xbar), FSub(y[i], ybar))])
        coef == IF sxx = I(0) THEN I(0) ELSE FDiv(sxy, sxx)
    IN  <<coef, FSub(ybar, FMul(coef, xbar))>>

\* model.predict(X) for one X
LinearRegression_predict(model, X) == FAdd(FMul(model[1], X), model[2])

\* model.score(X, y): r2_score, 1 - SSres/SStot; for a constant y it is 1.0
\* when the prediction is exact and 0.0 when it is not
LinearRegression_score(model, X, y) ==
    LET n == Len(X)
        ybar == FDiv(SumSeq(y), I(n))
        res == SumSeq([i \in 1 .. n |->
                  FMul(FSub(y[i], LinearRegression_predict(model, X[i])),
                       FSub(y[i], LinearRegression_predict(model, X[i])))])
        tot == SumSeq([i \in 1 .. n |-> FMul(FSub(y[i], ybar), FSub(y[i], ybar))])
    IN  IF tot = I(0) THEN (IF res = I(0) THEN I(1) ELSE I(0))
        ELSE FSub(I(1), FDiv(res, tot))

\* values_X_log2 of line 48
values_X_log2(dilution) == [i \in 1 .. Len(dilution) |-> I(log2(dilution[i]))]

\* Avipy.fit on one row: the row with its R^2 and its predicted values, one
\* per dilution ("<dilution>, pred")
avipy_fit_row(row, dilution) ==
    LET X == values_X_log2(dilution)
        model == LinearRegression_fit(X, row.y)
    IN  [Subject |-> row.Subject, Antigen |-> row.Antigen,
         Treated |-> row.Treated, y |-> row.y,
         R2 |-> LinearRegression_score(model, X, row.y),
         pred |-> [i \in 1 .. Len(dilution) |-> LinearRegression_predict(model, X[i])]]

avipy_fit(data, dilution) == [r \in 1 .. Len(data) |-> avipy_fit_row(data[r], dilution)]

\* the lambda of line 99 without its effect: the value as it is
keep_negative(x) == x

\* the lambda of line 99: 0 if x < 0 else x
clip_negative(x) == IF Lt(x, I(0)) THEN I(0) ELSE x

\* np.trapz(y, x)
RECURSIVE np_trapz(_, _)
np_trapz(y, x) ==
    IF Len(x) < 2 THEN I(0)
    ELSE FAdd(FMul(I(x[2] - x[1]), FDiv(FAdd(y[1], y[2]), I(2))),
              np_trapz(Tail(y), Tail(x)))

\* Avipy.auc on one fitted row: the readings dropped, the predictions clipped,
\* the AUC added
avipy_auc_row(fitted, dilution) ==
    LET pred == [i \in 1 .. Len(dilution) |-> clip_negative(fitted.pred[i])]
    IN  [Subject |-> fitted.Subject, Antigen |-> fitted.Antigen,
         Treated |-> fitted.Treated, R2 |-> fitted.R2,
         pred |-> pred, AUC |-> np_trapz(pred, dilution)]

avipy_auc(data, dilution) ==
    LET fitted == avipy_fit(data, dilution)
    IN  [r \in 1 .. Len(data) |-> avipy_auc_row(fitted[r], dilution)]

\* Lines 126 to 145 of avidity_index on the table of auc(): not ok when the
\* list of treated values is shorter than the list of untreated ones
\* (IndexError in line 140)
avipy_avidity_index(aucs) ==
    LET zero_untreated == {aucs[r].Subject : r \in {q \in 1 .. Len(aucs) :
                              aucs[q].Treated = "No" /\ aucs[q].AUC = I(0)}}
        df == SelectSeq(aucs, LAMBDA row : row.Subject \notin zero_untreated)
        untreated == SelectSeq(df, LAMBDA row : row.Treated = "No")
        treated == SelectSeq(df, LAMBDA row : row.Treated = "Yes")
    IN  IF Len(treated) < Len(untreated) THEN [ok |-> FALSE, table |-> <<>>]
        ELSE [ok |-> TRUE,
              table |-> [i \in 1 .. Len(untreated) |->
                 [Subject |-> untreated[i].Subject, Antigen |-> untreated[i].Antigen,
                  index |-> FDiv(treated[i].AUC, untreated[i].AUC)]]]

\* Avipy.fit()
AvipyFit ==
    /\ av_call' = [op |-> "fit"]
    /\ av_pc' = "returned"
    /\ av_err' = ""
    /\ av_ret' = avipy_fit(av_data, av_dilution)
    /\ UNCHANGED <<av_dilution, av_data, av_others>>

\* Avipy.auc()
AvipyAuc ==
    /\ av_call' = [op |-> "auc"]
    /\ av_pc' = "returned"
    /\ av_err' = ""
    /\ av_ret' = avipy_auc(av_data, av_dilution)
    /\ UNCHANGED <<av_dilution, av_data, av_others>>

\* Avipy.avidity_index()
AvipyAvidityIndex ==
    /\ av_call' = [op |-> "avidity_index"]
    /\ LET res == avipy_avidity_index(avipy_auc(av_data, av_dilution))
       IN  IF ~res.ok
           THEN /\ av_pc' = "raised"
                /\ av_err' = "IndexError"
                /\ av_ret' = <<>>
           ELSE /\ av_pc' = "returned"
                /\ av_err' = ""
                /\ av_ret' = res.table
    /\ UNCHANGED <<av_dilution, av_data, av_others>>

AvipyNext ==
    \/ AvipyFit
    \/ AvipyAuc
    \/ AvipyAvidityIndex

----------------------------------------------------------------------------
(* vizzy/flower.py: Peak.plot *)

\* kws = {"aspect": 4, "height": 1}
peak_plot_defaults == [aspect |-> I(4), height |-> I(1)]

\* **kwargs of Peak.plot
PeakKwargsSet ==
    {<<>>, <<<<"aspect", I(2)>>>>, <<<<"height", I(2)>>, <<"aspect", I(2)>>>>,
     <<<<"width", I(2)>>>>, <<<<"height", I(2)>>, <<"width", I(2)>>>>}

\* Peak.plot(**kwargs): the options, then the FacetGrid of the densities
PeakPlot(kwargs) ==
    /\ pk_call' = [op |-> "plot", kwargs |-> kwargs]
    /\ LET m == merge_kwargs(peak_plot_defaults, kwargs, 1)
       IN  IF m.ok
           THEN /\ pk_pc' = "returned"
                /\ pk_err' = ""
                /\ pk_drawn' = [kind |-> "FacetGrid", aspect |-> m.kws.aspect,
                                height |-> m.kws.height]
           ELSE /\ pk_pc' = "raised"
                /\ pk_err' = "Exception"
                /\ pk_drawn' = [kind |-> "none"]
    /\ UNCHANGED pk_others

----------------------------------------------------------------------------
(* plotty/utils.py: PlotUtils.qpcr_cq *)

\* kws of qpcr_cq, lines 62 and 63
qpcr_cq_defaults ==
    [cycle_bg |-> I(10), col_cycle |-> "cycle", col_rn |-> "Rn",
     well_loc |-> "well_position", color |-> "gray",
     threshold_multiplier |-> Q(5, 4), linear_range |-> I(7)]

\* **kwargs of qpcr_cq
QpcrKwargsSet ==
    {<<>>, <<<<"color", "red">>>>, <<<<"cycle_bg", I(5)>>, <<"linear_range", I(5)>>>>,
     <<<<"colour", "red">>>>, <<<<"color", "red">>, <<"cycles", I(5)>>>>}

\* What measure_cq() gives on the data frame: (_bg_val_avg, _cq_signal, _cq_val),
\* or it raises (NoVal), as on a frame without rows
QpcrMeasures == {NoVal, <<I(1), Q(5, 4), I(20)>>}

\* PlotUtils.qpcr_cq(df, ax, **kwargs): the options, then measure_cq(), then
\* the values printed (no ax) or marked on ax
PlotUtilsQpcrCq(ax, kwargs, measured) ==
    /\ qp_call' = [op |-> "qpcr_cq", ax |-> ax, kwargs |-> kwargs]
    /\ LET m == merge_kwargs(qpcr_cq_defaults, kwargs, 1)
       IN  IF ~m.ok
           THEN /\ qp_pc' = "raised"
                /\ qp_err' = "Exception"
                /\ qp_measured' = NoVal
                /\ qp_out' = [kind |-> "none"]
           ELSE IF measured = NoVal
           THEN /\ qp_pc' = "raised"
                /\ qp_err' = "MeasureError"
                /\ qp_measured' = NoVal
                /\ qp_out' = [kind |-> "none"]
           ELSE /\ qp_pc' = "returned"
                /\ qp_err' = ""
                /\ qp_measured' = measured
                /\ qp_out' = IF ax
                             THEN [kind |-> "marks", cq |-> measured[3],
                                   signal |-> measured[2], color |-> m.kws.color]
                             ELSE [kind |-> "print", cq |-> measured[3],
                                   signal |-> measured[2], color |-> ""]
    /\ UNCHANGED qp_others

\* The keyword options of the three methods that validate them: conf_int of
\* lowess.py with one replicate, Peak.plot and PlotUtils.qpcr_cq
OptionsNext ==
    \/ \E ax \in BOOLEAN, band \in {"None", "lines"}, kwargs \in KwargsSet :
          LowessConfInt(ax, 1, band, kwargs)
    \/ \E samples \in smooth_draws(lw_n), curve \in SmoothCurves \cup {NoVal} :
          LowessSmooth(samples, curve)
    \/ LowessBand
    \/ \E kwargs \in PeakKwargsSet : PeakPlot(kwargs)
    \/ \E ax \in BOOLEAN, kwargs \in QpcrKwargsSet, measured \in QpcrMeasures :
          PlotUtilsQpcrCq(ax, kwargs, measured)

----------------------------------------------------------------------------
(* vizzy/heatermap.py: Heatermap.corr *)

\* The columns of the data frames: one, two or three numeric features
FeatureLists == {<<"f1">>, <<"f1", "f2">>, <<"f1", "f2", "f3">>}

\* The values of the method argument
CorrMethods == {"pearson", "spearman", "kendall", "cosine"}

\* pandas DataFrame.corr(method=...) computes the methods 'pearson', 'kendall'
\* and 'spearman' and raises ValueError for any other string
pandas_corr_methods == {"pearson", "kendall", "spearman"}

\* The coefficients and the rounded p-values the library may find
CorrValues == {I(-1), I(0), I(1)}

PValues == {I(0), I(1)}

\* The pairs of distinct columns, each once
ColumnPairs(n) == {p \in (1..n) \X (1..n) : p[1] < p[2]}

\* One value per pair of columns: v is symmetric, diag is the value of a
\* column with itself
PairValue(v, diag, i, j) ==
    IF i = j THEN diag ELSE IF i < j THEN v[<<i, j>>] ELSE v[<<j, i>>]

\* reset_index, rename and pd.melt: one row per (feature_x, feature_y), the
\* columns of the matrix one after the other
melted_df(features, r) ==
    LET n == Len(features)
    IN  [k \in 1..(n * n) |->
            LET j == ((k - 1) \div n) + 1
                i == ((k - 1) % n) + 1
            IN  [feature_x |-> features[i], feature_y |-> features[j],
                 corr |-> PairValue(r, I(1), i, j)]]

\* calculate_p_value, lines 105 to 110: stats.pearsonr or stats.spearmanr
p_value_methods == {"pearson", "spearman"}

\* calculate_p_value, lines 112 to 131: the column "p-value" added to the rows
calculate_p_value(features, data, p) ==
    LET n == Len(features)
    IN  [k \in 1..Len(data) |->
            LET j == ((k - 1) \div n) + 1
                i == ((k - 1) % n) + 1
            IN  [feature_x |-> data[k].feature_x, feature_y |-> data[k].feature_y,
                 corr |-> data[k].corr, pvalue |-> PairValue(p, I(0), i, j)]]

\* Heatermap.corr(method, p_value): r and p are what the library computes on
\* the data
HeatermapCorr(method, p_value, r, p) ==
    /\ hm_call' = [op |-> "corr", method |-> method, p_value |-> p_value]
    /\ IF method \notin pandas_corr_methods
       THEN /\ hm_pc' = "raised"
            /\ hm_err' = "ValueError"
            /\ hm_ret' = <<>>
       ELSE IF ~p_value
       THEN /\ hm_pc' = "returned"
            /\ hm_err' = ""
            /\ hm_ret' = melted_df(hm_data, r)
       ELSE IF method \notin p_value_methods
       THEN /\ hm_pc' = "raised"
            /\ hm_err' = "Exception"
            /\ hm_ret' = <<>>
       ELSE /\ hm_pc' = "returned"
            /\ hm_err' = ""
            /\ hm_ret' = calculate_p_value(hm_data, melted_df(hm_data, r), p)
    /\ UNCHANGED hm_data
    /\ UNCHANGED hm_others

HeatermapNext ==
    \E method \in CorrMethods, p_value \in BOOLEAN,
       r \in [ColumnPairs(Len(hm_data)) -> CorrValues],
       p \in [ColumnPairs(Len(hm_data)) -> PValues] :
          HeatermapCorr(method, p_value, r, p)

----------------------------------------------------------------------------
(* plotty/plot.py: DilutionCurve; plotty/curvature.py: the curves it draws *)

\* Two DilutionCurve objects, and the axes they may be drawn on
DilutionCurves == {"d1", "d2"}

AxesSet == {"ax1", "ax2"}

\* self.data, the rows of one sample: the dilutions it has Avg_ and SD_
\* columns for, and the fitted parameters it has columns for (NoVal: none)
DilutionData ==
    {[steps |-> {1, 2}, fourpl |-> <<I(0), I(1), I(10), I(100)>>,
      sh |-> <<I(100), I(1), I(10)>>],
     [steps |-> {1, 2}, fourpl |-> NoVal, sh |-> NoVal]}

\* The arguments of parameters(): the second has a dilution without columns,
\* the third has one tick label too few and a range that starts at 0
ParameterSets ==
    {[conc |-> <<I(1), I(10)>>, conc_range |-> <<I(1), I(10)>>,
      conc_exponent |-> <<"0", "1">>, range |-> <<1, 2>>,
      min_x |-> I(1), max_x |-> I(100)],
     [conc |-> <<I(1), I(10)>>, conc_range |-> <<I(1), I(10)>>,
      conc_exponent |-> <<"0", "1">>, range |-> <<1, 2, 3>>,
      min_x |-> I(1), max_x |-> I(100)],
     [conc |-> <<I(1), I(10)>>, conc_range |-> <<I(1), I(10)>>,
      conc_exponent |-> <<"0">>, range |-> <<1, 2>>,
      min_x |-> I(0), max_x |-> I(100)]}

\* An attribute that has not been assigned: reading it raises AttributeError
NoAttr == [set |-> FALSE]

\* DilutionCurve.__init__ assigns data, sample, marker_kws and color, and
\* neither the attributes of parameters() nor ax
DilutionCurve_init == [params |-> NoAttr, ax |-> NoAttr]

\* parameters(), lines 32 to 36
DilutionCurve_parameters(attrs, args) ==
    [attrs EXCEPT !.params = [set |-> TRUE, v |-> args]]

\* plot(), line 41: self.ax = ax, before anything else
DilutionCurve_set_ax(attrs, ax) ==
    [attrs EXCEPT !.ax = [set |-> TRUE, v |-> ax]]

\* range as a set
RangeOf(seq) == {seq[i] : i \in 1..Len(seq)}

Min2(a, b) == IF a < b THEN a ELSE b

RECURSIVE plot_points(_, _, _)
\* plot(), lines 49 to 51: a marker and an error bar per zipped concentration
plot_points(conc, n, i) ==
    IF i > Min2(Len(conc), n) THEN <<>>
    ELSE <<[kind |-> "marker", x |-> conc[i]], [kind |-> "vlines", x |-> conc[i]]>>
         \o plot_points(conc, n, i + 1)

\* plot(): the exception it ends with ("" when it returns) and what it has
\* drawn by then.  self.range needs parameters(); the Avg_ and SD_ columns
\* must exist; set_xticks wants as many labels as ticks
DilutionCurve_plot(data, attrs, log) ==
    IF ~attrs.params.set THEN [err |-> "AttributeError", drawn |-> <<>>]
    ELSE LET a == attrs.params.v
             points == plot_points(a.conc, Len(a.range), 1)
             scaled == IF log THEN points \o <<[kind |-> "xscale", x |-> I(10)]>>
                       ELSE points
         IN  IF ~(RangeOf(a.range) \subseteq data.steps)
             THEN [err |-> "KeyError", drawn |-> <<>>]
             ELSE IF Len(a.conc_range) # Len(a.conc_exponent)
             THEN [err |-> "ValueError", drawn |-> scaled]
             ELSE [err |-> "",
                   drawn |-> scaled \o <<[kind |-> "xticks", x |-> a.conc_range[1]]>>]

\* specific_hill of curvature.py, line 87
specific_hill(x, bmax, h, kd) ==
    FDiv(FMul(bmax, FPow(x, h)), FAdd(FPow(kd, h), FPow(x, h)))

\* np.geomspace(min_x, max_x, n_points) raises ValueError when an end is 0
geomspace_ok(min_x, max_x) == min_x # I(0) /\ max_x # I(0)

\* curvature() and specific_hill_curve() with spacing = "geometric": the line
\* over model_x, given by its two ends
curve_line(kind, ax, min_x, max_x, y0, y1) ==
    <<[kind |-> kind, ax |-> ax, x0 |-> min_x, x1 |-> max_x, y0 |-> y0, y1 |-> y1]>>

\* fit_4pl() drawing on the axes of the last DilutionCurve that was plotted
fit_4pl_without_ax(data, attrs) ==
    IF data.fourpl = NoVal THEN [err |-> "KeyError", drawn |-> <<>>]
    ELSE IF ~attrs.params.set THEN [err |-> "AttributeError", drawn |-> <<>>]
    ELSE LET p == data.fourpl
             a == attrs.params.v
         IN  [err |-> "",
              drawn |-> curve_line("4pl", "gca", a.min_x, a.max_x,
                           curvature_four_pl(a.min_x, p[1], p[2], p[3], p[4]),
                           curvature_four_pl(a.max_x, p[1], p[2], p[3], p[4]))]

\* fit_4pl(): the columns of the data (line 63), then self.min_x and
\* self.max_x (lines 71, 72), then self.ax (line 75), then the curve
DilutionCurve_fit_4pl(data, attrs) ==
    IF data.fourpl = NoVal THEN [err |-> "KeyError", drawn |-> <<>>]
    ELSE IF ~attrs.params.set THEN [err |-> "AttributeError", drawn |-> <<>>]
    ELSE IF ~attrs.ax.set THEN [err |-> "AttributeError", drawn |-> <<>>]
    ELSE LET p == data.fourpl
             a == attrs.params.v
         IN  IF ~geomspace_ok(a.min_x, a.max_x)
             THEN [err |-> "ValueError", drawn |-> <<>>]
             ELSE [err |-> "",
                   drawn |-> curve_line("4pl", attrs.ax.v, a.min_x, a.max_x,
                                curvature_four_pl(a.min_x, p[1], p[2], p[3], p[4]),
                                curvature_four_pl(a.max_x, p[1], p[2], p[3], p[4]))]

\* fit_shc(): the same steps with the columns bmax, h, kd (lines 81 to 86)
DilutionCurve_fit_shc(data, attrs) ==
    IF data.sh = NoVal THEN [err |-> "KeyError", drawn |-> <<>>]
    ELSE IF ~attrs.params.set THEN [err |-> "AttributeError", drawn |-> <<>>]
    ELSE IF ~attrs.ax.set THEN [err |-> "AttributeError", drawn |-> <<>>]
    ELSE LET p == data.sh
             a == attrs.params.v
         IN  IF ~geomspace_ok(a.min_x, a.max_x)
             THEN [err |-> "ValueError", drawn |-> <<>>]
             ELSE [err |-> "",
                   drawn |-> curve_line("shc", attrs.ax.v, a.min_x, a.max_x,
                                specific_hill(a.min_x, p[1], p[2], p[3]),
                                specific_hill(a.max_x, p[1], p[2], p[3]))]

\* How a call on object self ends: the object is returned, or err is raised
DilutionCurveCallOver(op, self, res) ==
    /\ dc_call' = [op |-> op, self |-> self, before |-> dc_called[self]]
    /\ dc_called' = [dc_called EXCEPT ![self] = @ \cup {op}]
    /\ dc_pc' = IF res.err = "" THEN "returned" ELSE "raised"
    /\ dc_ret' = IF res.err = "" THEN self ELSE ""
    /\ dc_err' = res.err
    /\ dc_drawn' = res.drawn
    /\ UNCHANGED dc_data
    /\ UNCHANGED dc_others

\* self.parameters(...)
DilutionCurveParameters(self, args) ==
    /\ dc_attrs' = [dc_attrs EXCEPT ![self] = DilutionCurve_parameters(@, args)]
    /\ DilutionCurveCallOver("parameters", self, [err |-> "", drawn |-> <<>>])

\* self.plot(ax, log)
DilutionCurvePlot(self, ax, log) ==
    /\ dc_attrs' = [dc_attrs EXCEPT ![self] = DilutionCurve_set_ax(@, ax)]
    /\ DilutionCurveCallOver("plot", self,
                             DilutionCurve_plot(dc_data[self], dc_attrs[self], log))

\* self.fit_4pl()
DilutionCurveFit4pl(self) ==
    /\ UNCHANGED dc_attrs
    /\ DilutionCurveCallOver("fit_4pl", self,
                             DilutionCurve_fit_4pl(dc_data[self], dc_attrs[self]))

\* self.fit_shc()
DilutionCurveFitShc(self) ==
    /\ UNCHANGED dc_attrs
    /\ DilutionCurveCallOver("fit_shc", self,
                             DilutionCurve_fit_shc(dc_data[self], dc_attrs[self]))

DilutionCurveNext ==
    \/ \E self \in DilutionCurves, args \in ParameterSets :
          DilutionCurveParameters(self, args)
    \/ \E self \in DilutionCurves, ax \in AxesSet, log \in BOOLEAN :
          DilutionCurvePlot(self, ax, log)
    \/ \E self \in DilutionCurves : DilutionCurveFit4pl(self)
    \/ \E self \in DilutionCurves : DilutionCurveFitShc(self)

----------------------------------------------------------------------------
(* The specifications: one per class, and one for the keyword options *)

\* Sigmoid(x, y): the data decide what curve_fit will find (sg_fit)
SigmoidInit ==
    /\ sg_fit \in {[ok |-> TRUE, p |-> p] : p \in ParamSet}
                 \cup {[ok |-> FALSE, p |-> NoVal]}
    /\ sg_pc = "idle"
    /\ sg_call = [op |-> "init"]
    /\ sg_ret = [kind |-> "none", v |-> NoVal]
    /\ sg_err = ""
    \* no smoother object is in use
    /\ l2_n = 1
    /\ l2_K = 0
    /\ l2_frac = Unset
    /\ l2_pc = "idle"
    /\ l2_call = [op |-> "init"]
    /\ l2_sample = [idx |-> <<>>, x |-> <<>>, y |-> <<>>]
    /\ l2_smoothed = <<>>
    /\ l2_ret = [kind |-> "none"]
    /\ l2_drawn = [kind |-> "none"]
    /\ l2_err = ""
    /\ lw_n = 1
    /\ lw_pc = "idle"
    /\ lw_call = [op |-> "init"]
    /\ lw_kws = conf_int_defaults
    /\ lw_samples = NoSamples
    /\ lw_smooths = <<>>
    /\ lw_ret = [kind |-> "none"]
    /\ lw_drawn = [kind |-> "none"]
    /\ lw_err = ""
    /\ ci_x = <<I(1), I(2)>>
    /\ ci_y = <<I(1), I(2)>>
    /\ ci_n = 1
    /\ ci_pc = "idle"
    /\ ci_call = [op |-> "init"]
    /\ ci_bootstrap = <<>>
    /\ ci_lines = <<>>
    /\ ci_drawn = <<>>
    /\ ci_err = ""
    /\ av_dilution = <<>>
    /\ av_data = <<>>
    /\ av_pc = "idle"
    /\ av_call = [op |-> "init"]
    /\ av_ret = <<>>
    /\ av_err = ""
    /\ pk_pc = "idle"
    /\ pk_call = [op |-> "init"]
    /\ pk_drawn = [kind |-> "none"]
    /\ pk_err = ""
    /\ qp_pc = "idle"
    /\ qp_call = [op |-> "init"]
    /\ qp_measured = NoVal
    /\ qp_out = [kind |-> "none"]
    /\ qp_err = ""
    /\ hm_data = <<>>
    /\ hm_pc = "idle"
    /\ hm_call = [op |-> "init"]
    /\ hm_ret = <<>>
    /\ hm_err = ""
    /\ dc_data = <<>>
    /\ dc_attrs = <<>>
    /\ dc_called = <<>>
    /\ dc_pc = "idle"
    /\ dc_call = [op |-> "init"]
    /\ dc_ret = ""
    /\ dc_drawn = <<>>
    /\ dc_err = ""

\* lowess2 Lowess(x, y, K): n observations, K replicates, no frac yet
Lowess2Init ==
    /\ l2_n \in ObsCounts
    /\ l2_K \in 0 .. MaxK
    /\ l2_frac = Unset
    /\ l2_pc = "idle"
    /\ l2_call = [op |-> "init"]
    /\ l2_sample = [idx |-> <<>>, x |-> <<>>, y |-> <<>>]
    /\ l2_smoothed = <<>>
    /\ l2_ret = [kind |-> "none"]
    /\ l2_drawn = [kind |-> "none"]
    /\ l2_err = ""
    \* no other object is in use
    /\ sg_fit = [ok |-> FALSE, p |-> NoVal]
    /\ sg_pc = "idle"
    /\ sg_call = [op |-> "init"]
    /\ sg_ret = [kind |-> "none", v |-> NoVal]
    /\ sg_err = ""
    /\ lw_n = 1
    /\ lw_pc = "idle"
    /\ lw_call = [op |-> "init"]
    /\ lw_kws = conf_int_defaults
    /\ lw_samples = NoSamples
    /\ lw_smooths = <<>>
    /\ lw_ret = [kind |-> "none"]
    /\ lw_drawn = [kind |-> "none"]
    /\ lw_err = ""
    /\ ci_x = <<I(1), I(2)>>
    /\ ci_y = <<I(1), I(2)>>
    /\ ci_n = 1
    /\ ci_pc = "idle"
    /\ ci_call = [op |-> "init"]
    /\ ci_bootstrap = <<>>
    /\ ci_lines = <<>>
    /\ ci_drawn = <<>>
    /\ ci_err = ""
    /\ av_dilution = <<>>
    /\ av_data = <<>>
    /\ av_pc = "idle"
    /\ av_call = [op |-> "init"]
    /\ av_ret = <<>>
    /\ av_err = ""
    /\ pk_pc = "idle"
    /\ pk_call = [op |-> "init"]
    /\ pk_drawn = [kind |-> "none"]
    /\ pk_err = ""
    /\ qp_pc = "idle"
    /\ qp_call = [op |-> "init"]
    /\ qp_measured = NoVal
    /\ qp_out = [kind |-> "none"]
    /\ qp_err = ""
    /\ hm_data = <<>>
    /\ hm_pc = "idle"
    /\ hm_call = [op |-> "init"]
    /\ hm_ret = <<>>
    /\ hm_err = ""
    /\ dc_data = <<>>
    /\ dc_attrs = <<>>
    /\ dc_called = <<>>
    /\ dc_pc = "idle"
    /\ dc_call = [op |-> "init"]
    /\ dc_ret = ""
    /\ dc_drawn = <<>>
    /\ dc_err = ""

\* lowess Lowess(x, y): n observations
LowessInit ==
    /\ lw_n \in ObsCounts
    /\ lw_pc = "idle"
    /\ lw_call = [op |-> "init"]
    /\ lw_kws = conf_int_defaults
    /\ lw_samples = NoSamples
    /\ lw_smooths = <<>>
    /\ lw_ret = [kind |-> "none"]
    /\ lw_drawn = [kind |-> "none"]
    /\ lw_err = ""
    \* no other object is in use
    /\ sg_fit = [ok |-> FALSE, p |-> NoVal]
    /\ sg_pc = "idle"
    /\ sg_call = [op |-> "init"]
    /\ sg_ret = [kind |-> "none", v |-> NoVal]
    /\ sg_err = ""
    /\ l2_n = 1
    /\ l2_K = 0
    /\ l2_frac = Unset
    /\ l2_pc = "idle"
    /\ l2_call = [op |-> "init"]
    /\ l2_sample = [idx |-> <<>>, x |-> <<>>, y |-> <<>>]
    /\ l2_smoothed = <<>>
    /\ l2_ret = [kind |-> "none"]
    /\ l2_drawn = [kind |-> "none"]
    /\ l2_err = ""
    /\ ci_x = <<I(1), I(2)>>
    /\ ci_y = <<I(1), I(2)>>
    /\ ci_n = 1
    /\ ci_pc = "idle"
    /\ ci_call = [op |-> "init"]
    /\ ci_bootstrap = <<>>
    /\ ci_lines = <<>>
    /\ ci_drawn = <<>>
    /\ ci_err = ""
    /\ av_dilution = <<>>
    /\ av_data = <<>>
    /\ av_pc = "idle"
    /\ av_call = [op |-> "init"]
    /\ av_ret = <<>>
    /\ av_err = ""
    /\ pk_pc = "idle"
    /\ pk_call = [op |-> "init"]
    /\ pk_drawn = [kind |-> "none"]
    /\ pk_err = ""
    /\ qp_pc = "idle"
    /\ qp_call = [op |-> "init"]
    /\ qp_measured = NoVal
    /\ qp_out = [kind |-> "none"]
    /\ qp_err = ""
    /\ hm_data = <<>>
    /\ hm_pc = "idle"
    /\ hm_call = [op |-> "init"]
    /\ hm_ret = <<>>
    /\ hm_err = ""
    /\ dc_data = <<>>
    /\ dc_attrs = <<>>
    /\ dc_called = <<>>
    /\ dc_pc = "idle"
    /\ dc_call = [op |-> "init"]
    /\ dc_ret = ""
    /\ dc_drawn = <<>>
    /\ dc_err = ""

\* ConfInt(x, y, n)
ConfIntInit ==
    /\ ci_x \in ConfIntXs
    /\ ci_y \in ConfIntYs
    /\ ci_n \in 1 .. MaxConfN
    /\ ci_pc = "idle"
    /\ ci_call = [op |-> "init"]
    /\ ci_bootstrap = <<>>
    /\ ci_lines = <<>>
    /\ ci_drawn = <<>>
    /\ ci_err = ""
    \* no other object is in use
    /\ sg_fit = [ok |-> FALSE, p |-> NoVal]
    /\ sg_pc = "idle"
    /\ sg_call = [op |-> "init"]
    /\ sg_ret = [kind |-> "none", v |-> NoVal]
    /\ sg_err = ""
    /\ l2_n = 1
    /\ l2_K = 0
    /\ l2_frac = Unset
    /\ l2_pc = "idle"
    /\ l2_call = [op |-> "init"]
    /\ l2_sample = [idx |-> <<>>, x |-> <<>>, y |-> <<>>]
    /\ l2_smoothed = <<>>
    /\ l2_ret = [kind |-> "none"]
    /\ l2_drawn = [kind |-> "none"]
    /\ l2_err = ""
    /\ lw_n = 1
    /\ lw_pc = "idle"
    /\ lw_call = [op |-> "init"]
    /\ lw_kws = conf_int_defaults
    /\ lw_samples = NoSamples
    /\ lw_smooths = <<>>
    /\ lw_ret = [kind |-> "none"]
    /\ lw_drawn = [kind |-> "none"]
    /\ lw_err = ""
    /\ av_dilution = <<>>
    /\ av_data = <<>>
    /\ av_pc = "idle"
    /\ av_call = [op |-> "init"]
    /\ av_ret = <<>>
    /\ av_err = ""
    /\ pk_pc = "idle"
    /\ pk_call = [op |-> "init"]
    /\ pk_drawn = [kind |-> "none"]
    /\ pk_err = ""
    /\ qp_pc = "idle"
    /\ qp_call = [op |-> "init"]
    /\ qp_measured = NoVal
    /\ qp_out = [kind |-> "none"]
    /\ qp_err = ""
    /\ hm_data = <<>>
    /\ hm_pc = "idle"
    /\ hm_call = [op |-> "init"]
    /\ hm_ret = <<>>
    /\ hm_err = ""
    /\ dc_data = <<>>
    /\ dc_attrs = <<>>
    /\ dc_called = <<>>
    /\ dc_pc = "idle"
    /\ dc_call = [op |-> "init"]
    /\ dc_ret = ""
    /\ dc_drawn = <<>>
    /\ dc_err = ""

\* Avipy(data, dilution_mapper): the dilutions renamed, the blank taken off
AvipyInit ==
    /\ \E mapper \in DilutionMappers :
          /\ av_dilution = avipy_dilution(mapper)
          /\ av_data \in AvipyTables(avipy_dilution(mapper))
    /\ av_pc = "idle"
    /\ av_call = [op |-> "init"]
    /\ av_ret = <<>>
    /\ av_err = ""
    \* no other object is in use
    /\ sg_fit = [ok |-> FALSE, p |-> NoVal]
    /\ sg_pc = "idle"
    /\ sg_call = [op |-> "init"]
    /\ sg_ret = [kind |-> "none", v |-> NoVal]
    /\ sg_err = ""
    /\ l2_n = 1
    /\ l2_K = 0
    /\ l2_frac = Unset
    /\ l2_pc = "idle"
    /\ l2_call = [op |-> "init"]
    /\ l2_sample = [idx |-> <<>>, x |-> <<>>, y |-> <<>>]
    /\ l2_smoothed = <<>>
    /\ l2_ret = [kind |-> "none"]
    /\ l2_drawn = [kind |-> "none"]
    /\ l2_err = ""
    /\ lw_n = 1
    /\ lw_pc = "idle"
    /\ lw_call = [op |-> "init"]
    /\ lw_kws = conf_int_defaults
    /\ lw_samples = NoSamples
    /\ lw_smooths = <<>>
    /\ lw_ret = [kind |-> "none"]
    /\ lw_drawn = [kind |-> "none"]
    /\ lw_err = ""
    /\ pk_pc = "idle"
    /\ pk_call = [op |-> "init"]
    /\ pk_drawn = [kind |-> "none"]
    /\ pk_err = ""
    /\ qp_pc = "idle"
    /\ qp_call = [op |-> "init"]
    /\ qp_measured = NoVal
    /\ qp_out = [kind |-> "none"]
    /\ qp_err = ""
    /\ hm_data = <<>>
    /\ hm_pc = "idle"
    /\ hm_call = [op |-> "init"]
    /\ hm_ret = <<>>
    /\ hm_err = ""
    /\ dc_data = <<>>
    /\ dc_attrs = <<>>
    /\ dc_called = <<>>
    /\ dc_pc = "idle"
    /\ dc_call = [op |-> "init"]
    /\ dc_ret = ""
    /\ dc_drawn = <<>>
    /\ dc_err = ""
    /\ ci_x = <<I(1), I(2)>>
    /\ ci_y = <<I(1), I(2)>>
    /\ ci_n = 1
    /\ ci_pc = "idle"
    /\ ci_call = [op |-> "init"]
    /\ ci_bootstrap = <<>>
    /\ ci_lines = <<>>
    /\ ci_drawn = <<>>
    /\ ci_err = ""

\* a Lowess object of lowess.py, and the two helpers that keep no state
OptionsInit ==
    /\ lw_n \in ObsCounts
    /\ lw_pc = "idle"
    /\ lw_call = [op |-> "init"]
    /\ lw_kws = conf_int_defaults
    /\ lw_samples = NoSamples
    /\ lw_smooths = <<>>
    /\ lw_ret = [kind |-> "none"]
    /\ lw_drawn = [kind |-> "none"]
    /\ lw_err = ""
    \* no other object is in use
    /\ sg_fit = [ok |-> FALSE, p |-> NoVal]
    /\ sg_pc = "idle"
    /\ sg_call = [op |-> "init"]
    /\ sg_ret = [kind |-> "none", v |-> NoVal]
    /\ sg_err = ""
    /\ l2_n = 1
    /\ l2_K = 0
    /\ l2_frac = Unset
    /\ l2_pc = "idle"
    /\ l2_call = [op |-> "init"]
    /\ l2_sample = [idx |-> <<>>, x |-> <<>>, y |-> <<>>]
    /\ l2_smoothed = <<>>
    /\ l2_ret = [kind |-> "none"]
    /\ l2_drawn = [kind |-> "none"]
    /\ l2_err = ""
    /\ ci_x = <<I(1), I(2)>>
    /\ ci_y = <<I(1), I(2)>>
    /\ ci_n = 1
    /\ ci_pc = "idle"
    /\ ci_call = [op |-> "init"]
    /\ ci_bootstrap = <<>>
    /\ ci_lines = <<>>
    /\ ci_drawn = <<>>
    /\ ci_err = ""
    /\ av_dilution = <<>>
    /\ av_data = <<>>
    /\ av_pc = "idle"
    /\ av_call = [op |-> "init"]
    /\ av_ret = <<>>
    /\ av_err = ""
    /\ pk_pc = "idle"
    /\ pk_call = [op |-> "init"]
    /\ pk_drawn = [kind |-> "none"]
    /\ pk_err = ""
    /\ qp_pc = "idle"
    /\ qp_call = [op |-> "init"]
    /\ qp_measured = NoVal
    /\ qp_out = [kind |-> "none"]
    /\ qp_err = ""
    /\ hm_data = <<>>
    /\ hm_pc = "idle"
    /\ hm_call = [op |-> "init"]
    /\ hm_ret = <<>>
    /\ hm_err = ""
    /\ dc_data = <<>>
    /\ dc_attrs = <<>>
    /\ dc_called = <<>>
    /\ dc_pc = "idle"
    /\ dc_call = [op |-> "init"]
    /\ dc_ret = ""
    /\ dc_drawn = <<>>
    /\ dc_err = ""

\* Heatermap(data): a data frame of one to three columns
HeatermapInit ==
    /\ hm_data \in FeatureLists
    /\ hm_pc = "idle"
    /\ hm_call = [op |-> "init"]
    /\ hm_ret = <<>>
    /\ hm_err = ""
    \* no other object is in use
    /\ sg_fit = [ok |-> FALSE, p |-> NoVal]
    /\ sg_pc = "idle"
    /\ sg_call = [op |-> "init"]
    /\ sg_ret = [kind |-> "none", v |-> NoVal]
    /\ sg_err = ""
    /\ l2_n = 1
    /\ l2_K = 0
    /\ l2_frac = Unset
    /\ l2_pc = "idle"
    /\ l2_call = [op |-> "init"]
    /\ l2_sample = [idx |-> <<>>, x |-> <<>>, y |-> <<>>]
    /\ l2_smoothed = <<>>
    /\ l2_ret = [kind |-> "none"]
    /\ l2_drawn = [kind |-> "none"]
    /\ l2_err = ""
    /\ lw_n = 1
    /\ lw_pc = "idle"
    /\ lw_call = [op |-> "init"]
    /\ lw_kws = conf_int_defaults
    /\ lw_samples = NoSamples
    /\ lw_smooths = <<>>
    /\ lw_ret = [kind |-> "none"]
    /\ lw_drawn = [kind |-> "none"]
    /\ lw_err = ""
    /\ ci_x = <<I(1), I(2)>>
    /\ ci_y = <<I(1), I(2)>>
    /\ ci_n = 1
    /\ ci_pc = "idle"
    /\ ci_call = [op |-> "init"]
    /\ ci_bootstrap = <<>>
    /\ ci_lines = <<>>
    /\ ci_drawn = <<>>
    /\ ci_err = ""
    /\ av_dilution = <<>>
    /\ av_data = <<>>
    /\ av_pc = "idle"
    /\ av_call = [op |-> "init"]
    /\ av_ret = <<>>
    /\ av_err = ""
    /\ pk_pc = "idle"
    /\ pk_call = [op |-> "init"]
    /\ pk_drawn = [kind |-> "none"]
    /\ pk_err = ""
    /\ qp_pc = "idle"
    /\ qp_call = [op |-> "init"]
    /\ qp_measured = NoVal
    /\ qp_out = [kind |-> "none"]
    /\ qp_err = ""
    /\ dc_data = <<>>
    /\ dc_attrs = <<>>
    /\ dc_called = <<>>
    /\ dc_pc = "idle"
    /\ dc_call = [op |-> "init"]
    /\ dc_ret = ""
    /\ dc_drawn = <<>>
    /\ dc_err = ""

\* two DilutionCurve objects just constructed, each on the rows of its sample
DilutionCurveInit ==
    /\ dc_data \in [DilutionCurves -> DilutionData]
    /\ dc_attrs = [o \in DilutionCurves |-> DilutionCurve_init]
    /\ dc_called = [o \in DilutionCurves |-> {}]
    /\ dc_pc = "idle"
    /\ dc_call = [op |-> "init"]
    /\ dc_ret = ""
    /\ dc_drawn = <<>>
    /\ dc_err = ""
    \* no other object is in use
    /\ sg_fit = [ok |-> FALSE, p |-> NoVal]
    /\ sg_pc = "idle"
    /\ sg_call = [op |-> "init"]
    /\ sg_ret = [kind |-> "none", v |-> NoVal]
    /\ sg_err = ""
    /\ l2_n = 1
    /\ l2_K = 0
    /\ l2_frac = Unset
    /\ l2_pc = "idle"
    /\ l2_call = [op |-> "init"]
    /\ l2_sample = [idx |-> <<>>, x |-> <<>>, y |-> <<>>]
    /\ l2_smoothed = <<>>
    /\ l2_ret = [kind |-> "none"]
    /\ l2_drawn = [kind |-> "none"]
    /\ l2_err = ""
    /\ lw_n = 1
    /\ lw_pc = "idle"
    /\ lw_call = [op |-> "init"]
    /\ lw_kws = conf_int_defaults
    /\ lw_samples = NoSamples
    /\ lw_smooths = <<>>
    /\ lw_ret = [kind |-> "none"]
    /\ lw_drawn = [kind |-> "none"]
    /\ lw_err = ""
    /\ ci_x = <<I(1), I(2)>>
    /\ ci_y = <<I(1), I(2)>>
    /\ ci_n = 1
    /\ ci_pc = "idle"
    /\ ci_call = [op |-> "init"]
    /\ ci_bootstrap = <<>>
    /\ ci_lines = <<>>
    /\ ci_drawn = <<>>
    /\ ci_err = ""
    /\ av_dilution = <<>>
    /\ av_data = <<>>
    /\ av_pc = "idle"
    /\ av_call = [op |-> "init"]
    /\ av_ret = <<>>
    /\ av_err = ""
    /\ pk_pc = "idle"
    /\ pk_call = [op |-> "init"]
    /\ pk_drawn = [kind |-> "none"]
    /\ pk_err = ""
    /\ qp_pc = "idle"
    /\ qp_call = [op |-> "init"]
    /\ qp_measured = NoVal
    /\ qp_out = [kind |-> "none"]
    /\ qp_err = ""
    /\ hm_data = <<>>
    /\ hm_pc = "idle"
    /\ hm_call = [op |-> "init"]
    /\ hm_ret = <<>>
    /\ hm_err = ""

SpecSigmoid == SigmoidInit /\ [][SigmoidNext]_vars

SpecLowess2 == Lowess2Init /\ [][Lowess2Next]_vars

SpecLowess == LowessInit /\ [][LowessNext]_vars

SpecConfInt == ConfIntInit /\ [][ConfIntNext]_vars

SpecOptions == OptionsInit /\ [][OptionsNext]_vars

SpecAvipy == AvipyInit /\ [][AvipyNext]_vars

SpecHeatermap == HeatermapInit /\ [][HeatermapNext]_vars

SpecDilutionCurve == DilutionCurveInit /\ [][DilutionCurveNext]_vars

----------------------------------------------------------------------------
(* Properties *)

\* alpha = 1 - interval, and K * alpha / 2
AlphaOf(interval) == FSub(I(1), interval)

HalfTail(K, interval) == FDiv(FMul(I(K), AlphaOf(interval)), I(2))

\* v is the order statistic of rank r (0-based) of the values col[1..Len(col)]
\* in ascending order with NaN last
IsOrderStat(col, r, v) ==
    /\ Cardinality({j \in 1 .. Len(col) : SortsBefore(col[j], v)}) <= r
    /\ r < Cardinality({j \in 1 .. Len(col) : ~SortsBefore(v, col[j])})

Lowess2Ended == l2_call.op = "conf_int" /\ l2_pc \in {"returned", "raised"}

Lowess2Returned == l2_call.op = "conf_int" /\ l2_pc = "returned"

\* the band of the last conf_int call, returned (ax=None) or drawn
Lowess2BandOut == IF l2_call.ax THEN l2_drawn ELSE l2_ret

Lowess2Column(g) == [k \in 1 .. l2_K |-> l2_smoothed[k][g]]

Lowess2NoNaN == \A k \in 1 .. Len(l2_smoothed) : \A g \in 1 .. l2_K : IsFin(l2_smoothed[k][g])

\* C1: for K >= 4 and any confidence level in (0,1), the band conf_int(ax=None)
\* returns has bottom[g] <= top[g] at every grid point g (here for replicate
\* values that are all finite).
C1_BottomLeqTop ==
    (Lowess2Returned /\ ~l2_call.ax /\ l2_K >= 4 /\ Lowess2NoNaN)
        => \A g \in 1 .. l2_K : Leq(l2_ret.bottom[g], l2_ret.top[g])

\* C2: a conf_int call with K * alpha / 2 < 1 fails with an error and neither
\* returns nor draws a band.
C2_InsufficientReplicatesFail ==
    (/\ Lowess2Ended
     /\ l2_frac # Unset
     /\ Lowess2NoNaN
     /\ Lt(HalfTail(l2_K, l2_call.interval), I(1)))
        => /\ l2_pc = "raised"
           /\ l2_ret.kind = "none"
           /\ l2_drawn.kind = "none"

\* C8: conf_int succeeds on an object on which fit() was never called (its
\* outcome does not depend on the methods called before).
C8_FreshObjectSucceeds ==
    (Lowess2Ended /\ l2_frac = Unset /\ Leq(I(1), HalfTail(l2_K, l2_call.interval)))
        => l2_pc = "returned"

\* C10 as stated: the lower band is the order statistic of rank
\* floor(K*alpha/2) and the upper band the one of rank ceil(K*(1 - alpha/2)),
\* whenever these ranks lie in [0, K) (here for finite replicate values).
C10_PercentileRanksAsStated ==
    LET lo == FloorQ(HalfTail(l2_K, l2_call.interval))
        hi == CeilQ(FSub(I(l2_K), HalfTail(l2_K, l2_call.interval)))
    IN  (Lowess2Returned /\ Lowess2NoNaN /\ 0 <= lo /\ lo < l2_K /\ 0 <= hi /\ hi < l2_K)
            => \A g \in 1 .. l2_K :
                  /\ IsOrderStat(Lowess2Column(g), lo, Lowess2BandOut.bottom[g])
                  /\ IsOrderStat(Lowess2Column(g), hi, Lowess2BandOut.top[g])

\* C10 amended: with b = floor(K*alpha/2) >= 1, the lower band is the order
\* statistic of rank b - 1 (the b-th smallest value) and the upper band the
\* one of rank K - b = ceil(K*(1 - alpha/2)) (the b-th largest value).
C10_PercentileRanks ==
    LET b == FloorQ(HalfTail(l2_K, l2_call.interval))
        hi == CeilQ(FSub(I(l2_K), HalfTail(l2_K, l2_call.interval)))
    IN  (Lowess2Returned /\ b >= 1)
            => /\ hi = l2_K - b
               /\ \A g \in 1 .. l2_K :
                     /\ IsOrderStat(Lowess2Column(g), b - 1, Lowess2BandOut.bottom[g])
                     /\ IsOrderStat(Lowess2Column(g), hi, Lowess2BandOut.top[g])

\* a band with b = 2 whose lower and upper values differ at some grid point
C10_Witness ==
    /\ Lowess2Returned
    /\ FloorQ(HalfTail(l2_K, l2_call.interval)) = 2
    /\ Lowess2NoNaN
    /\ \E g \in 1 .. l2_K : Lt(Lowess2BandOut.bottom[g], Lowess2BandOut.top[g])

SigmoidPredicted ==
    /\ sg_call.op = "predict"
    /\ sg_fit.ok
    /\ sg_call.log_corr
    /\ sg_call.dilution = I(0)

\* y lies strictly between bottom and top of the fitted tuple
StrictlyInside(fit, y) ==
    \/ Lt(fit[1], y) /\ Lt(y, fit[4])
    \/ Lt(fit[4], y) /\ Lt(y, fit[1])

SigmoidRatio(fit, y) == FSub(FDiv(FSub(fit[4], fit[1]), FSub(y, fit[1])), I(1))

\* C3: round trip.  For slope # 0, bottom < top (and a positive midpoint) and
\* x > 0, predict(four_pl(x, bottom, slope, midpoint, top)) gives x back, up to
\* the rounding to 3 decimals.
C3_RoundTrip ==
    (/\ SigmoidPredicted
     /\ sg_call.fromEval
     /\ sg_fit.p[2] # I(0)
     /\ Lt(sg_fit.p[1], sg_fit.p[4])
     /\ Lt(I(0), sg_fit.p[3])
     /\ Lt(I(0), sg_call.x))
        => sg_pc = "returned" /\ sg_ret.v = Round3(sg_call.x)

\* C4: four_pl(midpoint, bottom, slope, midpoint, top) = (bottom + top) / 2
\* for every tuple with midpoint # 0.
C4_MidpointProperty ==
    (/\ sg_call.op = "four_pl"
     /\ sg_pc = "returned"
     /\ sg_fit.p[3] # I(0)
     /\ sg_call.x = sg_fit.p[3])
        => sg_ret.v = FDiv(FAdd(sg_fit.p[1], sg_fit.p[4]), I(2))

\* C5 as stated: for y strictly between bottom and top, predict returns
\* midpoint * ((top - bottom)/(y - bottom) - 1)^(1/slope).
C5_ClosedFormAsStated ==
    (/\ SigmoidPredicted
     /\ StrictlyInside(sg_fit.p, sg_call.y)
     /\ sg_fit.p[2] # I(0)
     /\ Lt(I(0), sg_fit.p[3]))
        => /\ sg_pc = "returned"
           /\ sg_ret.v = Round3(FMul(sg_fit.p[3],
                                     FRootPow(SigmoidRatio(sg_fit.p, sg_call.y), sg_fit.p[2])))

\* C5 amended: for y strictly between bottom and top, slope # 0 and
\* midpoint > 0, predict returns
\* midpoint * ((top - bottom)/(y - bottom) - 1)^(-1/slope), rounded to 3 decimals.
C5_ClosedForm ==
    (/\ SigmoidPredicted
     /\ StrictlyInside(sg_fit.p, sg_call.y)
     /\ sg_fit.p[2] # I(0)
     /\ Lt(I(0), sg_fit.p[3]))
        => /\ sg_pc = "returned"
           /\ sg_ret.v = Round3(FMul(sg_fit.p[3],
                                     FRootPow(SigmoidRatio(sg_fit.p, sg_call.y),
                                              Neg(sg_fit.p[2]))))

\* an inversion inside the curve's range that takes a square root and returns
\* a value other than the midpoint
C5_Witness ==
    /\ SigmoidPredicted
    /\ sg_pc = "returned"
    /\ StrictlyInside(sg_fit.p, sg_call.y)
    /\ sg_fit.p[2] = I(2)
    /\ Lt(I(0), sg_fit.p[3])
    /\ IsFin(sg_ret.v)
    /\ sg_ret.v # sg_fit.p[3]

\* C6: predict fails with an OutOfRange error, and returns no number, whenever
\* y is not strictly inside (bottom, top) or the fitted slope is zero (here for
\* tuples with bottom < top and a positive midpoint).
C6_OutOfRangeRaises ==
    (/\ SigmoidPredicted
     /\ Lt(sg_fit.p[1], sg_fit.p[4])
     /\ Lt(I(0), sg_fit.p[3])
     /\ \/ ~StrictlyInside(sg_fit.p, sg_call.y)
        \/ sg_fit.p[2] = I(0))
        => sg_pc = "raised" /\ sg_err = "OutOfRange"

\* at some grid point one replicate is undefined (NaN) and another is not
LowessHasNaN ==
    \E g \in 1 .. GridSize : \E k1, k2 \in 1 .. Len(lw_smooths) :
        IsNaN(lw_smooths[k1][g]) /\ IsFin(lw_smooths[k2][g])

\* C7: when the fit of a replicate yields an undefined (NaN) curve value, the
\* whole conf_int call aborts with an error: no band is drawn from fewer than
\* K valid replicate values (here for the percentile band of lowess.py).
C7_NaNReplicateAborts ==
    (/\ lw_call.op = "conf_int"
     /\ lw_pc \in {"returned", "raised"}
     /\ lw_call.band = "percentile"
     /\ lw_call.ax
     /\ LowessHasNaN)
        => lw_pc = "raised" /\ lw_drawn.kind = "none"

\* C9: every replicate resamples exactly n observation pairs, n the number
\* of observations, with every index in 0..n-1 (here for smooth(), which
\* lowess.py Lowess.conf_int calls once per replicate).
C9_SmoothResamplesN ==
    (lw_call.op = "conf_int" /\ lw_pc = "smoothing" /\ lw_samples # NoSamples)
        => /\ lw_samples.size = lw_n
           /\ lw_samples.indices \subseteq 0 .. lw_n - 1

----------------------------------------------------------------------------
(* Properties of Lowess.conf_int of curvemod/lowess.py *)

\* C15: the "se" band takes the z-score of the same two-sided level as the
\* percentile band: for interval = c percent, the inverse normal CDF at the
\* upper percentile rank 100 - (100 - c)/2, as a proportion.
C15_SeZscoreTwoSided ==
    (lw_call.op = "conf_int" /\ lw_drawn.kind = "fill_between_se")
        => lw_drawn.ppf =
              FDiv(FSub(I(100), FDiv(FSub(I(100), lw_kws.interval), I(2))), I(100))

\* C18: a band value other than None, "lines", "percentile" and "se" raises
\* and nothing is drawn; a recognised name draws the band of that kind.
C18_UnknownBandRaises ==
    (lw_call.op = "conf_int" /\ lw_pc \in {"returned", "raised"})
        => /\ lw_call.band \notin {"None", "lines", "percentile", "se"}
                => lw_pc = "raised" /\ lw_drawn.kind = "none"
           /\ (lw_call.band \in {"lines", "percentile", "se"} /\ lw_pc = "returned")
                => lw_drawn.kind =
                      CASE lw_call.band = "lines" -> "plot"
                        [] lw_call.band = "percentile" -> "fill_between"
                        [] lw_call.band = "se" -> "fill_between_se"

----------------------------------------------------------------------------
(* Properties of the keyword options *)

\* some keyword argument of the call is not among the accepted names
HasUnknownKey(kwargs, accepted) == \E i \in 1 .. Len(kwargs) : kwargs[i][1] \notin accepted

LowessOptionNames == {"color", "alpha", "interval"}

PeakOptionNames == {"aspect", "height"}

QpcrOptionNames ==
    {"cycle_bg", "col_cycle", "col_rn", "well_loc", "color", "threshold_multiplier",
     "linear_range"}

\* C17: conf_int of lowess.py, Peak.plot and qpcr_cq each raise for a keyword
\* argument that is not an accepted option, before anything is resampled,
\* computed or drawn.
C17_UnknownKeyRejectedFirst ==
    /\ (lw_call.op = "conf_int" /\ HasUnknownKey(lw_call.kwargs, LowessOptionNames))
          => /\ lw_pc = "raised" /\ lw_err = "Exception"
             /\ lw_samples = NoSamples /\ lw_smooths = <<>>
             /\ lw_ret.kind = "none" /\ lw_drawn.kind = "none"
    /\ (pk_call.op = "plot" /\ HasUnknownKey(pk_call.kwargs, PeakOptionNames))
          => /\ pk_pc = "raised" /\ pk_err = "Exception"
             /\ pk_drawn.kind = "none"
    /\ (qp_call.op = "qpcr_cq" /\ HasUnknownKey(qp_call.kwargs, QpcrOptionNames))
          => /\ qp_pc = "raised" /\ qp_err = "Exception"
             /\ qp_measured = NoVal /\ qp_out.kind = "none"

\* each of the three methods has been called with an accepted option followed
\* by an unknown one, and has raised
C17_Witness ==
    /\ lw_call.op = "conf_int" /\ Len(lw_call.kwargs) = 2
    /\ HasUnknownKey(lw_call.kwargs, LowessOptionNames) /\ lw_pc = "raised"
    /\ pk_call.op = "plot" /\ Len(pk_call.kwargs) = 2
    /\ HasUnknownKey(pk_call.kwargs, PeakOptionNames) /\ pk_pc = "raised"
    /\ qp_call.op = "qpcr_cq" /\ Len(qp_call.kwargs) = 2
    /\ HasUnknownKey(qp_call.kwargs, QpcrOptionNames) /\ qp_pc = "raised"

\* C25: overrides do not persist between calls: whatever was called before, a
\* call of conf_int, Peak.plot or qpcr_cq without keyword arguments runs
\* with the defaults of its kws (color steelblue, alpha 0.1, interval 95
\* for conf_int), and draws with them.
C25_OverridesDoNotPersist ==
    /\ (lw_call.op = "conf_int" /\ lw_call.kwargs = <<>>)
          => /\ lw_pc # "raised" \/ lw_err # "Exception"
             /\ lw_kws = conf_int_defaults
             /\ lw_drawn.kind \in {"plot", "fill_between", "fill_between_se"}
                   => (lw_drawn.color = "steelblue" /\ lw_drawn.alpha = Q(1, 10))
    /\ (pk_call.op = "plot" /\ pk_call.kwargs = <<>>)
          => /\ pk_pc = "returned"
             /\ pk_drawn.aspect = I(4) /\ pk_drawn.height = I(1)
    /\ (qp_call.op = "qpcr_cq" /\ qp_call.kwargs = <<>>)
          => /\ qp_err # "Exception"
             /\ qp_out.kind = "marks" => qp_out.color = "gray"

\* conf_int without keyword arguments has drawn its lines right after a
\* conf_int call with overrides; Peak.plot and qpcr_cq have run without
\* keyword arguments too
C25_Witness ==
    /\ lw_call.op = "conf_int" /\ lw_call.kwargs = <<>>
    /\ lw_call.prev \in {<<kw>> : kw \in KwargsSet \ {<<>>}}
    /\ lw_pc = "returned" /\ lw_drawn.kind = "plot"
    /\ pk_call.op = "plot" /\ pk_call.kwargs = <<>> /\ pk_pc = "returned"
    /\ qp_call.op = "qpcr_cq" /\ qp_call.kwargs = <<>> /\ qp_out.kind = "marks"

----------------------------------------------------------------------------
(* Properties of curvemod/linreg.py *)

\* a call of the ConfInt object has ended, given an Axes to draw on
ConfIntEndedWithAxes ==
    /\ ci_call.op \in {"lin_reg", "confidence_interval"}
    /\ ci_call.ax
    /\ ci_pc \in {"returned", "raised"}

\* C11: a fitting or bootstrap call on an observation set of one point fails
\* (InvalidInput) and draws no fit and no band.
C11_OnePointFails ==
    (ConfIntEndedWithAxes /\ Len(ci_x) = 1 /\ Len(ci_y) = 1)
        => ci_pc = "raised" /\ ci_drawn = <<>>

\* C12: confidence_interval on x and y of different lengths is rejected: no
\* replicate is fitted and nothing is drawn.
C12_UnequalLengthsRejected ==
    (/\ ConfIntEndedWithAxes
     /\ ci_call.op = "confidence_interval"
     /\ ci_call.conf_band
     /\ Len(ci_x) # Len(ci_y))
        => ci_pc = "raised" /\ ci_lines = <<>> /\ ci_drawn = <<>>

\* the q-th percentile of the replicate lines evaluated at the point xv
ReplicatePercentileAt(xv, q) ==
    np_percentile(np_sort([k \in 1 .. Len(ci_lines) |->
                              FAdd(FMul(ci_lines[k][1], xv), ci_lines[k][2])]), q)

\* C20: the band of confidence_interval is pointwise: at each x it is drawn
\* at, the lower and the upper value are the 2.5th and the 97.5th percentile
\* of the replicate lines evaluated at that x.
C20_PointwiseBand ==
    (ci_call.op = "confidence_interval" /\ ci_pc = "returned" /\ Len(ci_x) = Len(ci_y))
        => \A d \in 1 .. Len(ci_drawn) :
              ci_drawn[d].kind = "fill_between"
                 => \A i \in 1 .. Len(ci_drawn[d].x) :
                       /\ ci_drawn[d].y1[i] = ReplicatePercentileAt(ci_drawn[d].x[i], Q(5, 2))
                       /\ ci_drawn[d].y2[i] = ReplicatePercentileAt(ci_drawn[d].x[i], Q(195, 2))

----------------------------------------------------------------------------
(* Properties of curvemod/avipy.py *)

\* the AUC that auc() gives the row of a sample (a subject and an antigen)
\* with the given treatment
AvipyAucOf(subject, antigen, treated) ==
    LET aucs == avipy_auc(av_data, av_dilution)
        r == CHOOSE q \in 1 .. Len(aucs) :
                /\ aucs[q].Subject = subject /\ aucs[q].Antigen = antigen
                /\ aucs[q].Treated = treated
    IN  aucs[r].AUC

\* every sample of the table has its treated and its untreated row
AvipyComplete ==
    \A r \in 1 .. Len(av_data) : \E q \in 1 .. Len(av_data) :
        /\ av_data[q].Subject = av_data[r].Subject
        /\ av_data[q].Antigen = av_data[r].Antigen
        /\ av_data[q].Treated # av_data[r].Treated

\* C13: every row avidity_index returns holds AUC(treated) / AUC(untreated)
\* of the two rows of its own sample, whatever the order of the rows.
C13_AvidityIndexPerSample ==
    (av_call.op = "avidity_index" /\ av_pc = "returned" /\ AvipyComplete)
        => \A i \in 1 .. Len(av_ret) :
              av_ret[i].index =
                 FDiv(AvipyAucOf(av_ret[i].Subject, av_ret[i].Antigen, "Yes"),
                      AvipyAucOf(av_ret[i].Subject, av_ret[i].Antigen, "No"))

\* k with 2^k = d, for the dilutions of the tables
Exponent(d) == CHOOSE k \in 0 .. 5 : IPow(2, k) = d

\* the readings y are m * log2(x) + c over the dilutions, for some m and c
LinearReadings(y) ==
    \E m \in -2 .. 2, c \in -2 .. 2 :
        \A i \in 1 .. Len(av_dilution) : y[i] = I(m * Exponent(av_dilution[i]) + c)

\* C14: a row whose readings are exactly m * log2(x) + c is fitted exactly: the
\* predicted value at every dilution is the reading, and R^2 is 1.
C14_NoiselessFitExact ==
    (av_call.op = "fit" /\ av_pc = "returned")
        => \A r \in 1 .. Len(av_ret) :
              LinearReadings(av_data[r].y)
                 => av_ret[r].pred = av_data[r].y /\ av_ret[r].R2 = I(1)

\* fit() has returned a row with y = 2 * log2(x) + 1 at x = 1, 2, 4, 8, 16, 32
C14_Witness ==
    /\ av_call.op = "fit" /\ av_pc = "returned"
    /\ av_dilution = <<1, 2, 4, 8, 16, 32>>
    /\ \E r \in 1 .. Len(av_ret) :
          /\ av_data[r].y = <<I(1), I(3), I(5), I(7), I(9), I(11)>>
          /\ av_ret[r].pred = av_data[r].y

\* the trapezoid rule on the values y at the points x
Trapezoid(y, x) ==
    SumSeq([i \in 1 .. Len(x) - 1 |->
               FDiv(FMul(I(x[i + 1] - x[i]), FAdd(y[i], y[i + 1])), I(2))])

\* the predictions of the linear model for row r, as fit() returns them
AvipyRawPred(r) == avipy_fit(av_data, av_dilution)[r].pred

C19_AucNonNegative ==
    (av_call.op = "auc" /\ av_pc = "returned")
        => \A r \in 1 .. Len(av_ret) : Leq(I(0), av_ret[r].AUC)

\* the untreated rows of the table of auc() whose AUC is not 0
AvipyNonzeroUntreated ==
    SelectSeq(avipy_auc(av_data, av_dilution),
              LAMBDA row : row.Treated = "No" /\ row.AUC # I(0))

\* C22: avidity_index excludes exactly the observations whose untreated AUC
\* is 0: the table it returns has one row for every untreated row with
\* AUC # 0, in their order, and no other row, also when a Subject has
\* several antigens.
C22_ExactlyZeroUntreatedExcluded ==
    (av_call.op = "avidity_index" /\ av_pc = "returned")
        => /\ Len(av_ret) = Len(AvipyNonzeroUntreated)
           /\ \A i \in 1 .. Len(av_ret) :
                 /\ av_ret[i].Subject = AvipyNonzeroUntreated[i].Subject
                 /\ av_ret[i].Antigen = AvipyNonzeroUntreated[i].Antigen

----------------------------------------------------------------------------
(* Properties of vizzy/heatermap.py *)

\* C21: Heatermap.corr accepts only the methods 'pearson' and 'spearman': a
\* call with any other method has raised and returned no table, whether
\* p_value is True or False
C21_OnlyPearsonSpearman ==
    (hm_call.op = "corr" /\ hm_call.method \notin {"pearson", "spearman"})
        => (hm_pc = "raised" /\ hm_ret = <<>>)

----------------------------------------------------------------------------
(* Properties of plotty/plot.py *)

\* the last call came after parameters() and plot() on the same object
AfterParametersAndPlot == {"parameters", "plot"} \subseteq dc_call.before

\* C23: fit_4pl() and fit_shc() complete and draw a curve only when
\* parameters() and plot() have both been called before on the same object,
\* and plot() completes only after parameters(); in every other call order
\* the method raises before it has drawn anything; every call that completes
\* returns the object it was called on.
C23_CallOrderProtocol ==
    dc_pc # "idle"
        => /\ (dc_call.op \in {"fit_4pl", "fit_shc"} /\ ~AfterParametersAndPlot)
                 => (dc_pc = "raised" /\ dc_drawn = <<>>)
           /\ (dc_call.op = "plot" /\ "parameters" \notin dc_call.before)
                 => (dc_pc = "raised" /\ dc_drawn = <<>>)
           /\ dc_pc = "returned" => dc_ret = dc_call.self

\* fit_4pl() has drawn its curve and returned its object after parameters()
\* and plot(), while the same call on the other object, which never was
\* plotted, has failed
C23_Witness ==
    /\ dc_pc = "returned" /\ dc_call.op = "fit_4pl"
    /\ AfterParametersAndPlot
    /\ Len(dc_drawn) = 1 /\ dc_drawn[1].kind = "4pl"
    /\ dc_ret = dc_call.self
    /\ \E o \in DilutionCurves \ {dc_call.self} :
          "fit_4pl" \in dc_called[o] /\ "plot" \notin dc_called[o]

----------------------------------------------------------------------------
(* Properties of the two 4PL evaluators *)

\* C24: four_pl of curvemod/sigmoid.py returns, at every x and for every
\* parameter tuple (a, b, c, d), the value that four_pl of
\* plotty/curvature.py returns for the same arguments.
C24_EvaluatorsAgree ==
    (sg_call.op = "four_pl" /\ sg_pc = "returned")
        => sg_ret.v = curvature_four_pl(sg_call.x, sg_fit.p[1], sg_fit.p[2],
                                        sg_fit.p[3], sg_fit.p[4])


====
